---- MODULE Spec2Model ----
(***************************************************************************)
(* Model of the radio-scrap auto-collect pipeline:                         *)
(*   - the progress modal's event fold (scrape-progress-modal.tsx) on top  *)
(*     of the useSSE hook,                                                 *)
(*   - combineArticles, the merge of the per-source preview lists,         *)
(*   - the scrape page's preview handler,                                  *)
(*   - process_url_list, the backend job loop, and the SSE event queue,    *)
(*   - the preview aggregator and the collection job runner, which have    *)
(*     no source file and follow sections 4.4 and 4.5 of the specification.*)
(* Each part has its own specification over the shared variables.          *)
(***************************************************************************)
EXTENDS Integers, Sequences, FiniteSets, TLC

VARIABLES
    \* ---- useSSE + ScrapeProgressModal ----
    events,              \* useSSE: events state (received events, arrival order)
    esOpen,              \* useSSE: the EventSource has not been closed
    isConnected,         \* useSSE: isConnected state
    articleStates,       \* modal: Map<url, ArticleProgressState>
    lastProcessedIndex,  \* modal: lastProcessedIndexRef.current (0-based, -1 = none)
    foldDue,             \* modal: the [events] effect has not yet run for this events value
    lastBatchLen,        \* modal: newEvents.length of the latest fold run
    \* ---- ScrapePage (auto-collect) ----
    selectedSources,     \* page: selectedSources state (set of source ids)
    isPreviewLoading,    \* page: isPreviewLoading state
    previewResult,       \* page: previewResult state (NullPreview = null)
    previewError,        \* page: previewError state (NoError = null)
    selectedUrls,        \* page: selectedUrls state (Set<string>)
    combinedArticles,    \* page: combinedArticles memo of the latest render
    previewRequest,      \* the preview request awaiting its response (NoRequest = none)
    startMonth,          \* page: startMonth state
    endMonth,            \* page: endMonth state
    previewCall,         \* page: what the latest call of handleAutoCollectPreview did
    \* ---- backend ----
    store,               \* article store: the URLs of the saved articles
    previewFetch,        \* preview aggregator: what each source adapter did for the latest request
    \* ---- process_url_list ----
    jobUrls,             \* urls: the job's URL list
    jobIdx,              \* idx of the loop (1-based)
    jobPc,               \* the await the background task is at
    jobStatus,           \* scrape_jobs.status
    processedUrls,       \* scrape_jobs.processed_urls
    eventQueue,          \* event_queues[job_id]
    \* ---- Collection Job Runner ----
    articlePhase,        \* per submitted URL: its state in the per-article state machine
    published,           \* the job's stream, grouped by current_url, each group in emission order
    counts,              \* success_count, skipped_count, error_count so far
    capabilityCalls,     \* per submitted URL: the external capabilities called for it
    \* ---- GET /status/{job_id} streams ----
    received,            \* per subscriber: the events its event_generator has yielded
    fetched,             \* per subscriber: events of its generator's latest batch not yet yielded
    generatorPc,         \* per subscriber: where its event_generator is
    \* ---- ScrapePage (start of a collection) and the modal's effects ----
    isStartingAutoCollect, \* page: isStartingAutoCollect state
    startRequest,        \* the start request awaiting its response (NoStart = none)
    currentJobId,        \* page: currentJobId state (NoJob = null)
    progressModalOpen,   \* page: progressModalOpen state
    startCall,           \* page: what the latest call of handleStartAutoCollect did
    closeCall,           \* modal: what the latest call of handleClose did since the modal opened
    createdJob,          \* backend: the id and the submitted URLs of the latest job created
    streamJob,           \* useSSE: the job whose stream the hook's latest EventSource reads
    connections,         \* useSSE: the number of EventSources constructed for that job's endpoint
    initDue,             \* modal: the [open, selectedArticles] effect has work to do and has not run
    sseDue               \* useSSE: the effect has not yet run for the latest dependencies

foldVars == <<events, esOpen, isConnected, articleStates, lastProcessedIndex, foldDue, lastBatchLen>>

pageVars == <<selectedSources, isPreviewLoading, previewResult, previewError,
              selectedUrls, combinedArticles, previewRequest, startMonth, endMonth,
              previewCall>>

backendVars == <<store, previewFetch>>

runnerVars == <<jobUrls, jobIdx, jobPc, jobStatus, processedUrls, eventQueue>>

collectVars == <<articlePhase, published, counts, capabilityCalls>>

streamVars == <<received, fetched, generatorPc>>

sessionVars == <<isStartingAutoCollect, startRequest, currentJobId, progressModalOpen,
                 startCall, closeCall, createdJob, streamJob, connections, initDue,
                 sseDue>>

vars == <<foldVars, pageVars, backendVars, runnerVars, collectVars, streamVars, sessionVars>>

-----------------------------------------------------------------------------
(* Bounds *)

MaxEvents == 3
MaxArticles == 3
NumMonths == 2
MaxUrls == 2
MaxPublished == 102
MaxCollect == 4

-----------------------------------------------------------------------------
(* Progress events (src/lib/types.ts ScrapeProgressEvent) *)

NoUrl == "NoUrl"        \* current_url absent
NoStep == "NoStep"      \* step absent
NoError == "NoError"    \* error absent

ProgressEvent(u, st, s, er) ==
    [current_url |-> u, step |-> st, status |-> s, error |-> er]

\* The articles the modal was opened with (selectedArticles prop).
TrackedArticles ==
    << [url |-> "u1", title |-> "t1", source |-> "fcc"],
       [url |-> "u2", title |-> "t2", source |-> "ofcom"] >>

TrackedUrls == { TrackedArticles[i].url : i \in 1..Len(TrackedArticles) }

\* A URL the job reports on that the modal does not track.
UntrackedUrl == "ux"

\* The per-article events a job sends for one URL.
ArticleEvents(u) ==
    { ProgressEvent(u, st, "processing", NoError) :
          st \in {"scraped", "extracting", "extracted", "translating"} }
    \cup { ProgressEvent(u, NoStep, "success", NoError),
           ProgressEvent(u, NoStep, "skipped", NoError),
           ProgressEvent(u, "translating", "error", "msg") }

\* Job-lifecycle events: no current_url.
LifecycleEvents ==
    { ProgressEvent(NoUrl, NoStep, "completed", NoError),
      ProgressEvent(NoUrl, NoStep, "failed", "msg"),
      ProgressEvent(NoUrl, NoStep, "processing", NoError) }

EventSet ==
    UNION { ArticleEvents(u) : u \in TrackedUrls }
    \cup { ProgressEvent(UntrackedUrl, NoStep, "success", NoError) }
    \cup LifecycleEvents

\* A mutant of IsTerminalEvent: only completed ends the subscription.
IsTerminalEventCompletedOnly(e) == e.status = "completed"

IsTerminalEvent(e) == e.status = "completed" \/ e.status = "failed"

-----------------------------------------------------------------------------
(* ScrapeProgressModal: article states and the fold *)

PendingState(article) ==
    [url |-> article.url, title |-> article.title, source |-> article.source,
     scrapeStatus |-> "pending", extractStatus |-> "pending",
     translateStatus |-> "pending", overallStatus |-> "pending",
     error |-> NoError]

\* The init effect: one all-pending entry per selected article.
InitialStates(selectedArticles) ==
    [u \in { selectedArticles[i].url : i \in 1..Len(selectedArticles) } |->
        PendingState(
            selectedArticles[CHOOSE i \in 1..Len(selectedArticles) :
                /\ selectedArticles[i].url = u
                /\ \A j \in 1..Len(selectedArticles) :
                       selectedArticles[j].url = u => j <= i])]

\* if (event.status === 'skipped') { ... }
ApplySkipped(existing) ==
    [existing EXCEPT !.overallStatus = "skipped",
                     !.scrapeStatus = "completed",
                     !.extractStatus = "completed",
                     !.translateStatus = "completed"]

\* A mutant of ApplyError: the step in progress is marked as failed too.
ApplyErrorMarksSteps(existing, event) ==
    [existing EXCEPT !.overallStatus = "error", !.error = event.error,
                     !.translateStatus = "error"]

\* if (event.status === 'error') { ... }
ApplyError(existing, event) ==
    [existing EXCEPT !.overallStatus = "error", !.error = event.error]

\* A mutant of ApplyStep: a step event only touches its own step.
ApplyStepOwnStepOnly(existing, step) ==
    IF step = "scraped" THEN
        [existing EXCEPT !.scrapeStatus = "completed", !.overallStatus = "processing"]
    ELSE IF step = "extracting" THEN
        [existing EXCEPT !.extractStatus = "processing", !.overallStatus = "processing"]
    ELSE IF step = "extracted" THEN
        [existing EXCEPT !.extractStatus = "completed", !.overallStatus = "processing"]
    ELSE IF step = "translating" THEN
        [existing EXCEPT !.translateStatus = "processing", !.overallStatus = "processing"]
    ELSE existing

\* A mutant of ApplyStep: the translating branch writes extractStatus where
\* it should write translateStatus.
ApplyStepTranslatingReopensExtract(existing, step) ==
    IF step = "scraped" THEN
        [existing EXCEPT !.scrapeStatus = "completed",
                         !.overallStatus = "processing"]
    ELSE IF step = "extracting" THEN
        [existing EXCEPT !.scrapeStatus = "completed",
                         !.extractStatus = "processing",
                         !.overallStatus = "processing"]
    ELSE IF step = "extracted" THEN
        [existing EXCEPT !.scrapeStatus = "completed",
                         !.extractStatus = "completed",
                         !.overallStatus = "processing"]
    ELSE IF step = "translating" THEN
        [existing EXCEPT !.scrapeStatus = "completed",
                         !.extractStatus = "processing",
                         !.overallStatus = "processing"]
    ELSE existing

\* if (event.step === 'scraped') ... else if ... 'translating'
ApplyStep(existing, step) ==
    IF step = "scraped" THEN
        [existing EXCEPT !.scrapeStatus = "completed",
                         !.overallStatus = "processing"]
    ELSE IF step = "extracting" THEN
        [existing EXCEPT !.scrapeStatus = "completed",
                         !.extractStatus = "processing",
                         !.overallStatus = "processing"]
    ELSE IF step = "extracted" THEN
        [existing EXCEPT !.scrapeStatus = "completed",
                         !.extractStatus = "completed",
                         !.overallStatus = "processing"]
    ELSE IF step = "translating" THEN
        [existing EXCEPT !.scrapeStatus = "completed",
                         !.extractStatus = "completed",
                         !.translateStatus = "processing",
                         !.overallStatus = "processing"]
    ELSE existing

\* A mutant of ApplySuccess: success only sets overallStatus.
ApplySuccessOverallOnly(updated, status) ==
    IF status = "success" THEN [updated EXCEPT !.overallStatus = "completed"]
    ELSE updated

\* if (event.status === 'success') { ... }
ApplySuccess(updated, status) ==
    IF status = "success" THEN
        [updated EXCEPT !.scrapeStatus = "completed",
                        !.extractStatus = "completed",
                        !.translateStatus = "completed",
                        !.overallStatus = "completed"]
    ELSE updated

\* A mutant of UpdateEntry: the skipped branch only sets overallStatus.
UpdateEntrySkipKeepsSteps(existing, event) ==
    IF event.status = "skipped" THEN [existing EXCEPT !.overallStatus = "skipped"]
    ELSE IF event.status = "error" THEN ApplyError(existing, event)
    ELSE ApplySuccess(ApplyStep(existing, event.step), event.status)

\* The body of the for loop for an event whose URL is tracked.
UpdateEntry(existing, event) ==
    IF event.status = "skipped" THEN ApplySkipped(existing)
    ELSE IF event.status = "error" THEN ApplyError(existing, event)
    ELSE ApplySuccess(ApplyStep(existing, event.step), event.status)

\* Whether the loop body `continue`s without touching the map.
SkipsEvent(newStates, event) ==
    \/ event.current_url = NoUrl
    \/ event.current_url \notin DOMAIN newStates

\* A mutant of FoldEvent: without `if (!existing) continue`, an event about a
\* URL that is not tracked adds an entry for it.
FoldEventAddsUntracked(newStates, event) ==
    IF event.current_url = NoUrl THEN newStates
    ELSE IF event.current_url \in DOMAIN newStates
         THEN [newStates EXCEPT ![event.current_url] =
                   UpdateEntry(newStates[event.current_url], event)]
         ELSE [u \in DOMAIN newStates \cup {event.current_url} |->
                   IF u \in DOMAIN newStates THEN newStates[u]
                   ELSE UpdateEntry(
                            PendingState([url |-> u, title |-> "", source |-> ""]),
                            event)]

\* One iteration of `for (const event of newEvents)`.
FoldEvent(newStates, event) ==
    IF SkipsEvent(newStates, event) THEN newStates
    ELSE [newStates EXCEPT ![event.current_url] =
              UpdateEntry(newStates[event.current_url], event)]

RECURSIVE FoldSeqBreak(_, _)
\* A mutant of FoldSeq: `break` where the code has `continue`.
FoldSeqBreak(prev, newEvents) ==
    IF newEvents = <<>> THEN prev
    ELSE IF SkipsEvent(prev, Head(newEvents)) THEN prev
    ELSE FoldSeqBreak(FoldEvent(prev, Head(newEvents)), Tail(newEvents))

RECURSIVE FoldSeq(_, _)
\* setArticleStates((prev) => { for (const event of newEvents) ...; return newStates })
FoldSeq(prev, newEvents) ==
    IF newEvents = <<>> THEN prev
    ELSE FoldSeq(FoldEvent(prev, Head(newEvents)), Tail(newEvents))

\* A mutant of NewEvents: only the latest event is folded.
NewEventsLatestOnly(evs, startIndex) ==
    SubSeq(evs, Len(evs), Len(evs))

\* events.slice(startIndex), startIndex 0-based.
NewEvents(evs, startIndex) ==
    SubSeq(evs, startIndex + 1, Len(evs))

-----------------------------------------------------------------------------
(* Preview data (src/lib/types.ts ArticlePreview, AutoCollectPreviewResponse) *)

Sources == <<"fcc", "ofcom", "soumu">>
SourceIds == {"fcc", "ofcom", "soumu"}

NoDate == 0              \* published_date absent
Dates == {1, 2}          \* published_date values, ISO strings in date order

\* is_duplicate?: boolean, "undefined" when the field is absent
DupFlags == {"undefined", "false", "true"}

UrlTable ==
    [fcc |-> <<"f1", "f2", "f3", "f4">>,
     ofcom |-> <<"o1", "o2", "o3", "o4">>,
     soumu |-> <<"s1", "s2", "s3", "s4">>]

ArticlePreview(src, i, date, dup) ==
    [title |-> UrlTable[src][i], url |-> UrlTable[src][i],
     published_date |-> date, source |-> src, is_duplicate |-> dup]

NullPreview == [isNull |-> TRUE, data |-> <<>>, warnings |-> <<>>, total_count |-> 0]
NoRequest == [sent |-> FALSE, sources |-> {}, date_range |-> <<>>]

\* The months offered by the two selects, oldest first.
Months == 1..NumMonths

\* String.prototype.localeCompare on two ISO dates.
LocaleCompare(x, y) == IF x < y THEN -1 ELSE IF x > y THEN 1 ELSE 0

\* A mutant of CompareArticles: dates compared oldest first.
CompareArticlesAscending(a, b) ==
    IF a.is_duplicate # b.is_duplicate
    THEN (IF a.is_duplicate = "true" THEN 1 ELSE -1)
    ELSE IF a.published_date = NoDate THEN 1
    ELSE IF b.published_date = NoDate THEN -1
    ELSE LocaleCompare(a.published_date, b.published_date)

\* The comparator passed to combined.sort.
CompareArticles(a, b) ==
    IF a.is_duplicate # b.is_duplicate
    THEN (IF a.is_duplicate = "true" THEN 1 ELSE -1)
    ELSE IF a.published_date = NoDate THEN 1
    ELSE IF b.published_date = NoDate THEN -1
    ELSE LocaleCompare(b.published_date, a.published_date)

(* Array.prototype.sort. The comparator is not a consistent comparator (two  *)
(* undated articles, or an absent and a false is_duplicate, each compare as  *)
(* before/after the other), so the order is the engine's: this is V8's       *)
(* (Node, Chrome) TimSort, which for fewer than 64 elements is one run:      *)
(* CountAndMakeRun, then BinaryInsertionSort of the rest into it.            *)

Reverse(seq) == [i \in 1..Len(seq) |-> seq[Len(seq) + 1 - i]]

RECURSIVE RunLength(_, _, _)
\* CountAndMakeRun's loop: the run's length, idx the next index to look at.
RunLength(arr, idx, isDescending) ==
    IF idx > Len(arr) THEN idx - 1
    ELSE LET order == CompareArticles(arr[idx], arr[idx - 1]) IN
         IF isDescending /\ order >= 0 THEN idx - 1
         ELSE IF ~isDescending /\ order < 0 THEN idx - 1
         ELSE RunLength(arr, idx + 1, isDescending)

RECURSIVE InsertionPoint(_, _, _, _)
\* BinaryInsertionSort's search: where pivot goes in arr[left..right-1].
InsertionPoint(arr, pivot, left, right) ==
    IF left >= right THEN left
    ELSE LET mid == left + ((right - left) \div 2) IN
         IF CompareArticles(pivot, arr[mid]) < 0
         THEN InsertionPoint(arr, pivot, left, mid)
         ELSE InsertionPoint(arr, pivot, mid + 1, right)

RECURSIVE BinaryInsertionSort(_, _)
\* arr[1..start-1] is the run; insert arr[start], arr[start+1], ...
BinaryInsertionSort(arr, start) ==
    IF start > Len(arr) THEN arr
    ELSE LET pivot == arr[start]
             left == InsertionPoint(arr, pivot, 1, start)
             moved == [p \in 1..Len(arr) |->
                          IF p < left \/ p > start THEN arr[p]
                          ELSE IF p = left THEN pivot
                          ELSE arr[p - 1]]
         IN BinaryInsertionSort(moved, start + 1)

SortArticles(arr) ==
    IF Len(arr) < 2 THEN arr
    ELSE LET isDescending == CompareArticles(arr[2], arr[1]) < 0
             run == RunLength(arr, 3, isDescending)
             made == IF isDescending
                     THEN Reverse(SubSeq(arr, 1, run)) \o SubSeq(arr, run + 1, Len(arr))
                     ELSE arr
         IN BinaryInsertionSort(made, run + 1)

\* data.X.map(article => ({ ...article, sourceId: 'X' })), or nothing when absent
Tagged(data, src) ==
    IF src \in DOMAIN data
    THEN [i \in 1..Len(data[src]) |->
             [title |-> data[src][i].title, url |-> data[src][i].url,
              published_date |-> data[src][i].published_date,
              source |-> data[src][i].source,
              is_duplicate |-> data[src][i].is_duplicate, sourceId |-> src]]
    ELSE <<>>

\* The concatenation fcc, ofcom, soumu before the sort.
Concatenated(data) == Tagged(data, "fcc") \o Tagged(data, "ofcom") \o Tagged(data, "soumu")

combineArticles(data) == SortArticles(Concatenated(data))

\* !article.is_duplicate
IsNew(a) == a.is_duplicate # "true"

\* The URLs the preview handler auto-selects: every non-duplicate of the result.
NewUrls(data) ==
    { data[src][i].url : <<src, i>> \in
        { <<s, k>> \in (DOMAIN data) \X (1..MaxArticles + 1) :
              k <= Len(data[s]) /\ IsNew(data[s][k]) } }

-----------------------------------------------------------------------------
(* Backend: article store and preview aggregator *)

NoFetch ==
    [done |-> FALSE, sources |-> {}, invoked |-> {}, failed |-> {}, returned |-> <<>>,
     error |-> "none"]

InitBackend ==
    /\ store = {}
    /\ previewFetch = NoFetch

\* No job has been created.
InitRunner ==
    /\ jobUrls = <<>>
    /\ jobIdx = 0
    /\ jobPc = "none"
    /\ jobStatus = "none"
    /\ processedUrls = 0
    /\ eventQueue = <<>>

\* The subscribers of the job's stream.
Readers == {"r1", "r2"}

\* No subscriber has been sent anything.
InitStream ==
    /\ received = [r \in Readers |-> <<>>]
    /\ fetched = [r \in Readers |-> <<>>]
    /\ generatorPc = [r \in Readers |-> "polling"]

NoCounts == [success |-> 0, skipped |-> 0, error |-> 0]

\* No collection job is running.
InitCollect ==
    /\ articlePhase = <<>>
    /\ published = <<>>
    /\ counts = NoCounts
    /\ capabilityCalls = <<>>

\* currentJobId === null
NoJob == 0

\* job_id: every job gets a new id. The page, the hook and the modal only
\* tell a job's id from the id of the job before it, so two ids alternate.
JobIds == {1, 2}

NewJobId(previous) == IF previous = 1 THEN 2 ELSE 1

NoStart == [sent |-> FALSE, urls |-> {}]

\* The page and the modal after mounting: no job, the modal closed.
InitSession ==
    /\ isStartingAutoCollect = FALSE
    /\ startRequest = NoStart
    /\ currentJobId = NoJob
    /\ progressModalOpen = FALSE
    /\ startCall = "none"
    /\ closeCall = "none"
    /\ createdJob = [id |-> NoJob, urls |-> {}]
    /\ streamJob = NoJob
    /\ connections = 0
    /\ initDue = FALSE
    /\ sseDue = FALSE

\* What each source adapter finds for the requested months.
Catalog ==
    [fcc |-> <<ArticlePreview("fcc", 1, 2, "false"), ArticlePreview("fcc", 2, NoDate, "false")>>,
     ofcom |-> <<ArticlePreview("ofcom", 1, 1, "false")>>,
     soumu |-> <<ArticlePreview("soumu", 1, 2, "false")>>]

\* Dedup Oracle: isKnown(url), backed by the article store.
IsKnown(url) == url \in store

\* Step 3 of the aggregator: set is_duplicate on every returned article.
MarkDuplicates(list) ==
    [i \in 1..Len(list) |->
        [list[i] EXCEPT !.is_duplicate = IF IsKnown(list[i].url) THEN "true" ELSE "false"]]

RECURSIVE WarningsFor(_, _)
\* One warning per failed source, in source order.
WarningsFor(failed, i) ==
    IF i > Len(Sources) THEN <<>>
    ELSE (IF Sources[i] \in failed THEN <<Sources[i]>> ELSE <<>>)
             \o WarningsFor(failed, i + 1)

\* The aggregate response: the succeeded sources' lists, nothing for the failed
\* ones (their key absent, or present and empty for those in emptyKeys).
Aggregate(sources, failed, emptyKeys) ==
    [isNull |-> FALSE,
     data |-> [src \in (sources \ failed) \cup emptyKeys |->
                  IF src \in failed THEN <<>> ELSE MarkDuplicates(Catalog[src])],
     warnings |-> WarningsFor(failed, 1),
     total_count |->
         LET n(src) == IF src \in sources \ failed THEN Len(Catalog[src]) ELSE 0
         IN n("fcc") + n("ofcom") + n("soumu")]

-----------------------------------------------------------------------------
(* ScrapePage: handleAutoCollectPreview *)

InitPage ==
    /\ selectedSources = SourceIds
    /\ isPreviewLoading = FALSE
    /\ previewResult = NullPreview
    /\ previewError = NoError
    /\ selectedUrls = {}
    /\ combinedArticles = <<>>
    /\ previewRequest = NoRequest
    /\ startMonth = NumMonths
    /\ endMonth = NumMonths
    /\ previewCall = "none"

\* const dateRange = startMonth === endMonth ? startMonth : `${startMonth}~${endMonth}`
DateRange(start, end) == IF start = end THEN <<start>> ELSE <<start, end>>

\* handleSourceToggle / handleAllSourcesToggle: setSelectedSources(values)
SourceToggle(values) ==
    /\ values # selectedSources
    /\ selectedSources' = values
    /\ UNCHANGED <<isPreviewLoading, previewResult, previewError, selectedUrls,
                   combinedArticles, previewRequest, startMonth, endMonth, previewCall>>

\* <Select value={startMonth} onValueChange={setStartMonth}>
SetStartMonth(m) ==
    /\ m # startMonth
    /\ startMonth' = m
    /\ UNCHANGED <<selectedSources, isPreviewLoading, previewResult, previewError,
                   selectedUrls, combinedArticles, previewRequest, endMonth, previewCall>>

\* <Select value={endMonth} onValueChange={setEndMonth}>
SetEndMonth(m) ==
    /\ m # endMonth
    /\ endMonth' = m
    /\ UNCHANGED <<selectedSources, isPreviewLoading, previewResult, previewError,
                   selectedUrls, combinedArticles, previewRequest, startMonth, previewCall>>

\* The preview button is enabled.
PreviewButtonEnabled == selectedSources # {} /\ ~isPreviewLoading

\* selectedSources.length === 0
NoSources(sources) == sources = {}

\* A mutant of InvertedRange: the handler does not compare the months.
InvertedRangeNotChecked(start, end) == FALSE

\* startMonth > endMonth, on 'YYYY-MM' strings
InvertedRange(start, end) == start > end

\* A mutant of handleAutoCollectPreview: the previous result is cleared before
\* the months are validated.
handleAutoCollectPreviewClearsFirst ==
    IF NoSources(selectedSources)
    THEN /\ previewCall' = "no-sources"
         /\ UNCHANGED <<selectedSources, isPreviewLoading, previewResult, previewError,
                        selectedUrls, combinedArticles, previewRequest, startMonth,
                        endMonth, previewFetch>>
    ELSE IF InvertedRange(startMonth, endMonth)
    THEN /\ previewError' = "invalid-range"
         /\ previewCall' = "invalid-range"
         /\ previewResult' = NullPreview
         /\ selectedUrls' = {}
         /\ combinedArticles' = <<>>
         /\ UNCHANGED <<selectedSources, isPreviewLoading, previewRequest, startMonth,
                        endMonth, previewFetch>>
    ELSE /\ isPreviewLoading' = TRUE
         /\ previewError' = NoError
         /\ previewResult' = NullPreview
         /\ selectedUrls' = {}
         /\ combinedArticles' = <<>>
         /\ previewRequest' = [sent |-> TRUE, sources |-> selectedSources,
                               date_range |-> DateRange(startMonth, endMonth)]
         /\ previewCall' = "request"
         /\ previewFetch' = NoFetch
         /\ UNCHANGED <<selectedSources, startMonth, endMonth>>

\* handleAutoCollectPreview, from the call to the await.
handleAutoCollectPreview ==
    IF NoSources(selectedSources)
    THEN /\ previewCall' = "no-sources"
         /\ UNCHANGED <<selectedSources, isPreviewLoading, previewResult, previewError,
                        selectedUrls, combinedArticles, previewRequest, startMonth,
                        endMonth, previewFetch>>
    ELSE IF InvertedRange(startMonth, endMonth)
    THEN /\ previewError' = "invalid-range"
         /\ previewCall' = "invalid-range"
         /\ UNCHANGED <<selectedSources, isPreviewLoading, previewResult, selectedUrls,
                        combinedArticles, previewRequest, startMonth, endMonth,
                        previewFetch>>
    ELSE /\ isPreviewLoading' = TRUE
         /\ previewError' = NoError
         /\ previewResult' = NullPreview
         /\ selectedUrls' = {}
         /\ combinedArticles' = <<>>
         /\ previewRequest' = [sent |-> TRUE, sources |-> selectedSources,
                               date_range |-> DateRange(startMonth, endMonth)]
         /\ previewCall' = "request"
         /\ previewFetch' = NoFetch
         /\ UNCHANGED <<selectedSources, startMonth, endMonth>>

\* A click on the enabled preview button.
ClickPreview ==
    /\ PreviewButtonEnabled
    /\ handleAutoCollectPreview

\* handleAutoCollectPreview when the await throws: catch, then finally.
PreviewReject ==
    /\ previewRequest.sent
    /\ previewRequest' = NoRequest
    /\ previewError' = "preview-failed"
    /\ isPreviewLoading' = FALSE
    /\ UNCHANGED <<selectedSources, previewResult, selectedUrls, combinedArticles,
                   startMonth, endMonth, previewCall>>

\* selectableArticles: combinedArticles.filter(a => !a.is_duplicate)
selectableArticles(combined) == SelectSeq(combined, IsNew)

SeqUrls(seq) == { seq[i].url : i \in 1..Len(seq) }

\* handleArticleToggle(url, checked), from a checkbox of a non-duplicate row
ArticleToggle(url, checked) ==
    /\ url \in SeqUrls(selectableArticles(combinedArticles))
    /\ selectedUrls' = IF checked THEN selectedUrls \cup {url} ELSE selectedUrls \ {url}
    /\ selectedUrls' # selectedUrls
    /\ UNCHANGED <<selectedSources, isPreviewLoading, previewResult, previewError,
                   combinedArticles, previewRequest, startMonth, endMonth, previewCall>>

\* handleSelectAll(checked), the header checkbox
SelectAll(checked) ==
    /\ selectableArticles(combinedArticles) # <<>>
    /\ selectedUrls' = IF checked THEN SeqUrls(selectableArticles(combinedArticles)) ELSE {}
    /\ selectedUrls' # selectedUrls
    /\ UNCHANGED <<selectedSources, isPreviewLoading, previewResult, previewError,
                   combinedArticles, previewRequest, startMonth, endMonth, previewCall>>

\* A mutant of PreviewResolve: a response that carries warnings is treated as a failure.
PreviewResolveFailsOnWarnings(result) ==
    /\ previewRequest.sent
    /\ previewRequest' = NoRequest
    /\ isPreviewLoading' = FALSE
    /\ IF result.warnings # <<>>
       THEN /\ previewError' = "preview-failed"
            /\ UNCHANGED <<previewResult, selectedUrls, combinedArticles>>
       ELSE /\ previewResult' = result
            /\ selectedUrls' = NewUrls(result.data)
            /\ combinedArticles' = combineArticles(result.data)
            /\ UNCHANGED previewError
    /\ UNCHANGED <<selectedSources, startMonth, endMonth, previewCall>>

\* handleAutoCollectPreview after `await previewAutoCollect(...)` returned result:
\* setPreviewResult, setSelectedUrls, finally setIsPreviewLoading(false); the
\* render that follows recomputes the combinedArticles memo.
PreviewResolve(result) ==
    /\ previewRequest.sent
    /\ previewRequest' = NoRequest
    /\ previewResult' = result
    /\ selectedUrls' = NewUrls(result.data)
    /\ isPreviewLoading' = FALSE
    /\ combinedArticles' = combineArticles(result.data)
    /\ UNCHANGED <<selectedSources, previewError, startMonth, endMonth, previewCall>>

-----------------------------------------------------------------------------
(* SpecFold: the modal is open for a job; the hook receives events and the *)
(* fold effect runs after renders.                                         *)

InitFold ==
    /\ events = <<>>
    /\ esOpen = TRUE
    /\ isConnected = FALSE
    /\ articleStates = InitialStates(TrackedArticles)
    /\ lastProcessedIndex = -1
    /\ foldDue = FALSE
    /\ lastBatchLen = 0

\* eventSource.onopen
OnOpen ==
    /\ esOpen
    /\ ~isConnected
    /\ isConnected' = TRUE
    /\ UNCHANGED <<events, esOpen, articleStates, lastProcessedIndex, foldDue, lastBatchLen>>

\* eventSource.onmessage, on a connection that has been announced
OnMessage(e) ==
    /\ esOpen
    /\ isConnected
    /\ Len(events) < MaxEvents
    /\ events' = Append(events, e)
    /\ esOpen' = ~IsTerminalEvent(e)
    /\ isConnected' = ~IsTerminalEvent(e)
    /\ foldDue' = TRUE
    /\ UNCHANGED <<articleStates, lastProcessedIndex, lastBatchLen>>

\* eventSource.onerror
OnError ==
    /\ esOpen
    /\ esOpen' = FALSE
    /\ isConnected' = FALSE
    /\ UNCHANGED <<events, articleStates, lastProcessedIndex, foldDue, lastBatchLen>>

\* useEffect(() => { ... }, [events])
FoldEffect ==
    /\ foldDue
    /\ foldDue' = FALSE
    /\ LET startIndex == lastProcessedIndex + 1 IN
       IF Len(events) = 0 \/ startIndex >= Len(events)
       THEN UNCHANGED <<articleStates, lastProcessedIndex, lastBatchLen>>
       ELSE /\ articleStates' = FoldSeq(articleStates, NewEvents(events, startIndex))
            /\ lastProcessedIndex' = Len(events) - 1
            /\ lastBatchLen' = Len(NewEvents(events, startIndex))
    /\ UNCHANGED <<events, esOpen, isConnected>>

NextFold ==
    \/ OnOpen /\ UNCHANGED <<pageVars, backendVars, runnerVars, collectVars, streamVars, sessionVars>>
    \/ (\E e \in EventSet : OnMessage(e)) /\ UNCHANGED <<pageVars, backendVars, runnerVars, collectVars, streamVars, sessionVars>>
    \/ OnError /\ UNCHANGED <<pageVars, backendVars, runnerVars, collectVars, streamVars, sessionVars>>
    \/ FoldEffect /\ UNCHANGED <<pageVars, backendVars, runnerVars, collectVars, streamVars, sessionVars>>

InitSpecFold ==
    /\ InitFold
    /\ InitPage
    /\ InitBackend
    /\ InitRunner
    /\ InitCollect
    /\ InitStream
    /\ InitSession

SpecFold == InitSpecFold /\ [][NextFold]_vars

-----------------------------------------------------------------------------
(* SpecUpdater: the updater passed to setArticleStates, applied to one new  *)
(* event after another, for every event the type allows.                    *)

\* ScrapeProgressEvent.step, or none
AllSteps == {NoStep, "scraped", "extracting", "extracted", "translating"}

\* ScrapeProgressEvent.status
AllStatuses == {"processing", "success", "error", "completed", "failed", "skipped"}

AllEvents ==
    { ProgressEvent(u, st, s, er) :
          u \in TrackedUrls \cup {UntrackedUrl, NoUrl}, st \in AllSteps,
          s \in AllStatuses, er \in {NoError, "msg"} }

\* setArticleStates((prev) => ...) with newEvents = [e]
ApplyUpdater(e) ==
    /\ articleStates' = FoldSeq(articleStates, <<e>>)
    /\ articleStates' # articleStates
    /\ UNCHANGED <<events, esOpen, isConnected, lastProcessedIndex, foldDue, lastBatchLen>>

InitSpecUpdater ==
    /\ InitFold
    /\ InitPage
    /\ InitBackend
    /\ InitRunner
    /\ InitCollect
    /\ InitStream
    /\ InitSession

NextUpdater ==
    (\E e \in AllEvents : ApplyUpdater(e)) /\ UNCHANGED <<pageVars, backendVars, runnerVars, collectVars, streamVars, sessionVars>>

SpecUpdater == InitSpecUpdater /\ [][NextUpdater]_vars

-----------------------------------------------------------------------------
(* SpecMerge: a preview request is in flight and any response arrives: any   *)
(* mix of per-source lists, is_duplicate flags and dates.                    *)

\* The lists of n articles of one source.
ArticleLists(src, n) ==
    { [i \in 1..n |-> ArticlePreview(src, i, dd[i][1], dd[i][2])] :
          dd \in [1..n -> (Dates \cup {NoDate}) \X DupFlags] }

\* The response data with n1/n2/n3 articles; a source with none may be absent.
PreviewData(present, l1, l2, l3) ==
    [src \in present |->
        IF src = "fcc" THEN l1 ELSE IF src = "ofcom" THEN l2 ELSE l3]

TotalCount(data) ==
    LET n(src) == IF src \in DOMAIN data THEN Len(data[src]) ELSE 0
    IN n("fcc") + n("ofcom") + n("soumu")

PreviewResponse(data, warnings) ==
    [isNull |-> FALSE, data |-> data, warnings |-> warnings,
     total_count |-> TotalCount(data)]

InitMerge ==
    /\ InitFold
    /\ InitRunner
    /\ InitCollect
    /\ InitStream
    /\ InitSession
    /\ selectedSources = SourceIds
    /\ isPreviewLoading = TRUE
    /\ previewResult = NullPreview
    /\ previewError = NoError
    /\ selectedUrls = {}
    /\ combinedArticles = <<>>
    /\ previewRequest = [sent |-> TRUE, sources |-> SourceIds,
                         date_range |-> <<NumMonths>>]
    /\ startMonth = NumMonths
    /\ endMonth = NumMonths
    /\ previewCall = "request"
    /\ InitBackend

AnyPreviewArrives ==
    /\ previewRequest.sent
    /\ \E n1 \in 0..MaxArticles :
        \E n2 \in 0..(MaxArticles - n1) :
        \E n3 \in 0..(MaxArticles - n1 - n2) :
        \E l1 \in ArticleLists("fcc", n1), l2 \in ArticleLists("ofcom", n2),
           l3 \in ArticleLists("soumu", n3) :
        \E present \in SUBSET SourceIds :
            /\ (n1 > 0 => "fcc" \in present)
            /\ (n2 > 0 => "ofcom" \in present)
            /\ (n3 > 0 => "soumu" \in present)
            /\ PreviewResolve(PreviewResponse(PreviewData(present, l1, l2, l3), <<>>))

NextMerge == AnyPreviewArrives /\ UNCHANGED <<foldVars, backendVars, runnerVars, collectVars, streamVars, sessionVars>>

SpecMerge == InitMerge /\ [][NextMerge]_vars

-----------------------------------------------------------------------------
(* SpecPage: the scrape page's preview against the preview aggregator.      *)

\* The aggregator answers the request in flight: each selected source either
\* returns its articles or fails.
PreviewRespond ==
    /\ previewRequest.sent
    /\ \E failed \in SUBSET previewRequest.sources :
       \E emptyKeys \in SUBSET failed :
           /\ previewFetch' =
                  [done |-> TRUE, sources |-> previewRequest.sources,
                   invoked |-> previewRequest.sources, failed |-> failed,
                   returned |-> [src \in previewRequest.sources \ failed |->
                                    MarkDuplicates(Catalog[src])],
                   error |-> "none"]
           /\ PreviewResolve(Aggregate(previewRequest.sources, failed, emptyKeys))
    /\ UNCHANGED store

InitSpecPage ==
    /\ InitFold
    /\ InitPage
    /\ InitRunner
    /\ InitCollect
    /\ InitStream
    /\ InitSession
    /\ store \in SUBSET {"f1", "o1"}
    /\ previewFetch = NoFetch

NextPage ==
    \/ (\E values \in SUBSET SourceIds : SourceToggle(values)) /\ UNCHANGED <<foldVars, backendVars, runnerVars, collectVars, streamVars, sessionVars>>
    \/ (\E m \in Months : SetStartMonth(m)) /\ UNCHANGED <<foldVars, backendVars, runnerVars, collectVars, streamVars, sessionVars>>
    \/ (\E m \in Months : SetEndMonth(m)) /\ UNCHANGED <<foldVars, backendVars, runnerVars, collectVars, streamVars, sessionVars>>
    \/ ClickPreview /\ UNCHANGED <<foldVars, store, runnerVars, collectVars, streamVars, sessionVars>>
    \/ PreviewRespond /\ UNCHANGED <<foldVars, runnerVars, collectVars, streamVars, sessionVars>>
    \/ PreviewReject /\ UNCHANGED <<foldVars, backendVars, runnerVars, collectVars, streamVars, sessionVars>>
    \/ (\E url \in SeqUrls(combinedArticles), checked \in BOOLEAN : ArticleToggle(url, checked))
           /\ UNCHANGED <<foldVars, backendVars, runnerVars, collectVars, streamVars, sessionVars>>
    \/ (\E checked \in BOOLEAN : SelectAll(checked)) /\ UNCHANGED <<foldVars, backendVars, runnerVars, collectVars, streamVars, sessionVars>>

SpecPage == InitSpecPage /\ [][NextPage]_vars

-----------------------------------------------------------------------------
(* SpecHandler: the preview operation asked by the page, for the month of  *)
(* its first render, and by any other caller of the API.                    *)

\* A mutant of ValidationError: the source list is not looked at.
ValidationErrorRangeOnly(sources, date_range) ==
    Len(date_range) = 2 /\ date_range[1] > date_range[2]

\* The request is malformed: an empty source list, or a range whose start
\* month is later than its end month.
ValidationError(sources, date_range) ==
    \/ sources = {}
    \/ Len(date_range) = 2 /\ date_range[1] > date_range[2]

\* POST preview(sources, date_range) from a caller other than the page: the
\* request is validated before any adapter is invoked, and a valid one is
\* answered as the page's are.
preview(sources, date_range) ==
    /\ IF ValidationError(sources, date_range)
       THEN previewFetch' =
                [done |-> TRUE, sources |-> sources, invoked |-> {}, failed |-> {},
                 returned |-> <<>>, error |-> "ValidationError"]
       ELSE \E failed \in SUBSET sources :
                previewFetch' =
                    [done |-> TRUE, sources |-> sources, invoked |-> sources,
                     failed |-> failed,
                     returned |-> [src \in sources \ failed |->
                                      MarkDuplicates(Catalog[src])],
                     error |-> "none"]
    /\ UNCHANGED <<store, pageVars>>

\* The date_range values a caller can send over the months of the model.
DateRanges == { <<m>> : m \in Months } \cup (Months \X Months)

NextHandler ==
    \/ (\E values \in SUBSET SourceIds : SourceToggle(values)) /\ UNCHANGED <<foldVars, backendVars, runnerVars, collectVars, streamVars, sessionVars>>
    \/ ClickPreview /\ UNCHANGED <<foldVars, store, runnerVars, collectVars, streamVars, sessionVars>>
    \/ PreviewRespond /\ UNCHANGED <<foldVars, runnerVars, collectVars, streamVars, sessionVars>>
    \/ PreviewReject /\ UNCHANGED <<foldVars, backendVars, runnerVars, collectVars, streamVars, sessionVars>>
    \/ (\E sources \in SUBSET SourceIds, date_range \in DateRanges : preview(sources, date_range))
           /\ UNCHANGED <<foldVars, runnerVars, collectVars, streamVars, sessionVars>>

SpecHandler == InitSpecPage /\ [][NextHandler]_vars

-----------------------------------------------------------------------------
(* SpecRunner: process_url_list, the background task of a scrape job, next   *)
(* to previews of the same sources.                                         *)

NoStatus == "NoStatus"
NoArticle == "NoArticle"

\* {'processed': idx, 'total': total, 'current_url': link, 'article_id': article_id}
ProgressMessage(idx, total, link) ==
    [processed |-> idx, total |-> total, current_url |-> link, article_id |-> link,
     error |-> NoError, url |-> NoUrl, status |-> NoStatus]

\* {'processed': idx, 'total': total, 'error': str(e), 'url': link}
ErrorMessage(idx, total, link) ==
    [processed |-> idx, total |-> total, current_url |-> NoUrl, article_id |-> NoArticle,
     error |-> "exception", url |-> link, status |-> NoStatus]

\* {'status': 'completed'}
CompletedMessage ==
    [processed |-> 0, total |-> 0, current_url |-> NoUrl, article_id |-> NoArticle,
     error |-> NoError, url |-> NoUrl, status |-> "completed"]

\* deque(maxlen=100)
QueueMaxLen == 100

\* A mutant of send_sse_event: a full queue refuses the new event.
send_sse_event_keeps_oldest(queue, event) ==
    IF Len(queue) < QueueMaxLen THEN Append(queue, event) ELSE queue

\* send_sse_event: event_queues[job_id].append(event), the oldest dropped when full
send_sse_event(queue, event) ==
    IF Len(queue) < QueueMaxLen THEN Append(queue, event)
    ELSE Append(Tail(queue), event)

CatalogUrls == {"f1", "f2", "o1", "s1"}

RECURSIVE DistinctLists(_, _)
\* The lists of n distinct URLs of a set.
DistinctLists(urls, n) ==
    IF n = 0 THEN {<<>>}
    ELSE UNION { { <<u>> \o rest : rest \in DistinctLists(urls \ {u}, n - 1) } : u \in urls }

\* The URL lists a job is created with.
JobUrlLists == UNION { DistinctLists(CatalogUrls, n) : n \in 1..MaxUrls }

total == Len(jobUrls)
url_data == jobUrls[jobIdx]

\* for idx, url_data in enumerate(urls, 1): the next iteration, or the loop's end
NextIteration ==
    IF jobIdx < total
    THEN jobIdx' = jobIdx + 1 /\ jobPc' = "scrape_url"
    ELSE jobIdx' = jobIdx /\ jobPc' = "update_scrape_job_status"

\* A mutant of ExceptHandler: an article's exception marks the job failed and ends the loop.
ExceptHandlerFailsJob ==
    /\ eventQueue' = send_sse_event(eventQueue, ErrorMessage(jobIdx, total, url_data))
    /\ jobStatus' = "failed"
    /\ jobPc' = "done"
    /\ UNCHANGED <<jobUrls, jobIdx, processedUrls, store>>

\* except Exception as e: log, send the error event, go on with the next URL
ExceptHandler ==
    /\ eventQueue' = send_sse_event(eventQueue, ErrorMessage(jobIdx, total, url_data))
    /\ NextIteration
    /\ UNCHANGED <<jobUrls, jobStatus, processedUrls, store>>

\* POST /start: BackgroundTasks.add_task(scraper.process_url_list)
start_scraping ==
    /\ jobPc = "created"
    /\ jobIdx' = 1
    /\ jobPc' = "scrape_url"
    /\ UNCHANGED <<jobUrls, jobStatus, processedUrls, store, eventQueue>>

\* content = await firecrawl_service.scrape_url(url_data['link'])
scrape_url ==
    /\ jobPc = "scrape_url"
    /\ \/ /\ jobPc' = "save_article"
          /\ UNCHANGED <<jobUrls, jobIdx, jobStatus, processedUrls, store, eventQueue>>
       \/ ExceptHandler

\* INSERT INTO articles
SavedStore(link) == store \cup {link}

\* article_id = await db_service.save_article(article)
save_article ==
    /\ jobPc = "save_article"
    /\ \/ /\ store' = SavedStore(url_data)
          /\ jobPc' = "attachments"
          /\ UNCHANGED <<jobUrls, jobIdx, jobStatus, processedUrls, eventQueue>>
       \/ ExceptHandler

\* extract_attachment_links, download_attachment for each link, save_attachments
attachments ==
    /\ jobPc = "attachments"
    /\ \/ /\ jobPc' = "update_scrape_job_progress"
          /\ UNCHANGED <<jobUrls, jobIdx, jobStatus, processedUrls, store, eventQueue>>
       \/ ExceptHandler

\* await update_scrape_job_progress(job_id, idx, total)
update_scrape_job_progress ==
    /\ jobPc = "update_scrape_job_progress"
    /\ \/ /\ processedUrls' = jobIdx
          /\ jobPc' = "send_sse_event"
          /\ UNCHANGED <<jobUrls, jobIdx, jobStatus, store, eventQueue>>
       \/ ExceptHandler

\* await send_sse_event(job_id, {processed, total, current_url, article_id})
send_progress_event ==
    /\ jobPc = "send_sse_event"
    /\ eventQueue' = send_sse_event(eventQueue, ProgressMessage(jobIdx, total, url_data))
    /\ NextIteration
    /\ UNCHANGED <<jobUrls, jobStatus, processedUrls, store>>

\* await update_scrape_job_status(job_id, 'completed'): the call is outside the
\* try, so an exception in it leaves process_url_list and ends the task
update_scrape_job_status ==
    /\ jobPc = "update_scrape_job_status"
    /\ \/ /\ jobStatus' = "completed"
          /\ jobPc' = "send_completed"
       \/ /\ jobStatus' = jobStatus
          /\ jobPc' = "aborted"
    /\ UNCHANGED <<jobUrls, jobIdx, processedUrls, store, eventQueue>>

\* await send_sse_event(job_id, {'status': 'completed'})
send_completed_event ==
    /\ jobPc = "send_completed"
    /\ eventQueue' = send_sse_event(eventQueue, CompletedMessage)
    /\ jobPc' = "done"
    /\ UNCHANGED <<jobUrls, jobIdx, jobStatus, processedUrls, store>>

\* The job has been created from an uploaded URL list; nothing is stored yet.
InitSpecRunner ==
    /\ InitFold
    /\ InitPage
    /\ InitBackend
    /\ jobUrls \in JobUrlLists
    /\ jobIdx = 0
    /\ jobPc = "created"
    /\ jobStatus = "pending"
    /\ processedUrls = 0
    /\ eventQueue = <<>>
    /\ InitCollect
    /\ InitStream
    /\ InitSession

NextJob ==
    \/ start_scraping /\ UNCHANGED <<foldVars, pageVars, previewFetch, collectVars, streamVars, sessionVars>>
    \/ scrape_url /\ UNCHANGED <<foldVars, pageVars, previewFetch, collectVars, streamVars, sessionVars>>
    \/ save_article /\ UNCHANGED <<foldVars, pageVars, previewFetch, collectVars, streamVars, sessionVars>>
    \/ attachments /\ UNCHANGED <<foldVars, pageVars, previewFetch, collectVars, streamVars, sessionVars>>
    \/ update_scrape_job_progress /\ UNCHANGED <<foldVars, pageVars, previewFetch, collectVars, streamVars, sessionVars>>
    \/ send_progress_event /\ UNCHANGED <<foldVars, pageVars, previewFetch, collectVars, streamVars, sessionVars>>
    \/ update_scrape_job_status /\ UNCHANGED <<foldVars, pageVars, previewFetch, collectVars, streamVars, sessionVars>>
    \/ send_completed_event /\ UNCHANGED <<foldVars, pageVars, previewFetch, collectVars, streamVars, sessionVars>>

\* The preview is run again once the job has been started.
PreviewRerun == jobPc # "created" /\ ClickPreview

NextRunner ==
    \/ NextJob
    \/ PreviewRerun /\ UNCHANGED <<foldVars, store, runnerVars, collectVars, streamVars, sessionVars>>
    \/ PreviewRespond /\ UNCHANGED <<foldVars, runnerVars, collectVars, streamVars, sessionVars>>

SpecRunner == InitSpecRunner /\ [][NextRunner]_vars

\* The event loop runs the background task whenever its await has returned.
SpecRunnerFair == InitSpecRunner /\ [][NextJob]_vars /\ WF_vars(NextJob)

-----------------------------------------------------------------------------
(* SpecReaders: two subscribers of GET /status/{job_id} on the job that      *)
(* process_url_list is running.                                             *)

\* The subscriber's generator has returned.
Returned(r) == generatorPc[r] = "returned"

\* One more event of the batch is yielded: the generator is suspended at the
\* yield until the response has written the event.
YieldFrom(r, batch) ==
    /\ received' = [received EXCEPT ![r] = Append(@, Head(batch))]
    /\ fetched' = [fetched EXCEPT ![r] = Tail(batch)]
    /\ generatorPc' = [generatorPc EXCEPT ![r] = "yielding"]

\* events = await sse_service.get_sse_events(job_id), in a round of the
\* generator's loop that finds events: the queue is copied and cleared, and
\* the generator runs on, without suspending, to the yield of the first event.
get_sse_events(r) ==
    /\ generatorPc[r] = "polling"
    /\ eventQueue # <<>>
    /\ YieldFrom(r, eventQueue)
    /\ eventQueue' = <<>>
    /\ UNCHANGED <<jobUrls, jobIdx, jobPc, jobStatus, processedUrls, store>>

\* The generator is resumed after a yield:
\* if event.get('status') == 'completed': return; else the next event of the
\* batch is yielded, or after the last one the loop sleeps and polls again.
resume_generator(r) ==
    /\ generatorPc[r] = "yielding"
    /\ IF received[r][Len(received[r])].status = "completed"
       THEN /\ fetched' = [fetched EXCEPT ![r] = <<>>]
            /\ generatorPc' = [generatorPc EXCEPT ![r] = "returned"]
            /\ UNCHANGED received
       ELSE IF fetched[r] = <<>>
       THEN /\ generatorPc' = [generatorPc EXCEPT ![r] = "polling"]
            /\ UNCHANGED <<received, fetched>>
       ELSE YieldFrom(r, fetched[r])
    /\ UNCHANGED <<jobUrls, jobIdx, jobPc, jobStatus, processedUrls, store, eventQueue>>

\* The client disconnects: StreamingResponse closes the generator where it is
\* suspended (at a yield or in the sleep), and the events it had fetched and
\* not yet yielded go with it.
Disconnect(r) ==
    /\ generatorPc[r] \in {"polling", "yielding"}
    /\ fetched' = [fetched EXCEPT ![r] = <<>>]
    /\ generatorPc' = [generatorPc EXCEPT ![r] = "closed"]
    /\ UNCHANGED <<jobUrls, jobIdx, jobPc, jobStatus, processedUrls, store, eventQueue,
                   received>>

InitSpecReaders ==
    /\ InitFold
    /\ InitPage
    /\ InitBackend
    /\ InitCollect
    /\ InitStream
    /\ InitSession
    /\ jobUrls \in JobUrlLists
    /\ jobIdx = 0
    /\ jobPc = "created"
    /\ jobStatus = "pending"
    /\ processedUrls = 0
    /\ eventQueue = <<>>

NextReaders ==
    \/ NextJob
    \/ (\E r \in Readers : get_sse_events(r)) /\ UNCHANGED <<foldVars, pageVars, previewFetch, collectVars, sessionVars>>
    \/ (\E r \in Readers : resume_generator(r)) /\ UNCHANGED <<foldVars, pageVars, previewFetch, collectVars, sessionVars>>
    \/ (\E r \in Readers : Disconnect(r)) /\ UNCHANGED <<foldVars, pageVars, previewFetch, collectVars, sessionVars>>

SpecReaders == InitSpecReaders /\ [][NextReaders]_vars

-----------------------------------------------------------------------------
(* SpecQueue: the queue of a job long enough to fill it. No call of the job *)
(* raises; one subscriber attaches when the queue is nearly full and reads  *)
(* its stream at whatever pace it likes.                                   *)

\* A job whose events, the completed one included, number MaxPublished.
LongJobUrls == [k \in 1..(MaxPublished - 1) |-> ToString(k)]

\* No call of the step raised: no error event was queued and the task goes on.
NoException ==
    /\ jobPc' # "aborted"
    /\ \A i \in 1..Len(eventQueue') : eventQueue'[i].url = NoUrl

\* The number of URLs the job has processed when the subscriber's stream
\* request arrives: ten short of the queue's capacity.
UnreadAtAttach == QueueMaxLen - 10

\* The job has processed its first UnreadAtAttach URLs, all with success, and
\* is about to scrape the next one; nobody has read its queue yet.
InitSpecQueue ==
    /\ InitFold
    /\ InitPage
    /\ store = { LongJobUrls[k] : k \in 1..UnreadAtAttach }
    /\ previewFetch = NoFetch
    /\ InitCollect
    /\ InitStream
    /\ InitSession
    /\ jobUrls = LongJobUrls
    /\ jobIdx = UnreadAtAttach + 1
    /\ jobPc = "scrape_url"
    /\ jobStatus = "pending"
    /\ processedUrls = UnreadAtAttach
    /\ eventQueue = [k \in 1..UnreadAtAttach |->
                        ProgressMessage(k, Len(LongJobUrls), LongJobUrls[k])]

NextQueue ==
    \/ NextJob /\ NoException
    \/ get_sse_events("r1") /\ UNCHANGED <<foldVars, pageVars, previewFetch, collectVars, sessionVars>>
    \/ resume_generator("r1") /\ UNCHANGED <<foldVars, pageVars, previewFetch, collectVars, sessionVars>>
    \/ Disconnect("r1") /\ UNCHANGED <<foldVars, pageVars, previewFetch, collectVars, sessionVars>>

SpecQueue == InitSpecQueue /\ [][NextQueue]_vars

-----------------------------------------------------------------------------
(* SpecCollect: the Collection Job Runner over the submitted articles, a    *)
(* bounded number of them in the pipeline at a time.                        *)

\* The worker pool's size.
MaxConcurrent == 3

\* The terminal job event, carrying the aggregate counts.
TerminalEvent(status, c, n) ==
    [current_url |-> NoUrl, step |-> NoStep, status |-> status, error |-> NoError,
     processed |-> c.success + c.skipped + c.error, total |-> n,
     success_count |-> c.success, skipped_count |-> c.skipped, error_count |-> c.error]

InPipeline == { u \in DOMAIN articlePhase : articlePhase[u] \in {"scraping", "extracting", "translating"} }

TerminalPhases == {"done", "skipped", "error"}

\* A mutant of PoolHasRoom: the pool's size is not enforced.
PoolAlwaysHasRoom(inPipeline) == TRUE

\* A worker of the pool is free.
PoolHasRoom(inPipeline) == Cardinality(inPipeline) < MaxConcurrent

\* The catalog's URLs in one fixed order.
CatalogOrder == <<"f1", "f2", "o1", "s1">>

\* The article lists a collection job is created with: the runner takes up
\* pending articles in any order, so one order per set of articles is enough.
CollectJobs ==
    { SelectSeq(CatalogOrder, LAMBDA u : u \in S) :
          S \in { T \in SUBSET CatalogUrls : T # {} /\ Cardinality(T) <= MaxCollect } }

\* A mutant of Counted: a duplicate skip is not counted.
CountedExceptSkipped(c, outcome) ==
    IF outcome = "skipped" THEN c ELSE [c EXCEPT ![outcome] = @ + 1]

\* The counts after one more article ended with the outcome.
Counted(c, outcome) == [c EXCEPT ![outcome] = @ + 1]

\* A mutant of KnownAtCollection: the preview's verdict is trusted, no second lookup.
KnownAtCollectionNotChecked(u) == FALSE

\* The second dedup check, at the moment collection takes the article up.
KnownAtCollection(u) == IsKnown(u)

\* publish(job_id, event) for the events of one transition
Publish(u, evs) == [published EXCEPT ![u] = @ \o evs]

\* Another job stores an article this job has not yet taken up.
ExternalSave(u) ==
    /\ jobStatus = "processing"
    /\ u \in DOMAIN articlePhase
    /\ articlePhase[u] = "pending"
    /\ u \notin store
    /\ store' = store \cup {u}
    /\ UNCHANGED <<collectVars, runnerVars, previewFetch>>

\* pending -> skipped if the URL is known by now, else pending -> scraping
TakeUp(u) ==
    /\ jobStatus = "processing"
    /\ u \in DOMAIN articlePhase
    /\ articlePhase[u] = "pending"
    /\ PoolHasRoom(InPipeline)
    /\ IF KnownAtCollection(u)
       THEN /\ articlePhase' = [articlePhase EXCEPT ![u] = "skipped"]
            /\ published' = Publish(u, <<ProgressEvent(u, NoStep, "skipped", NoError)>>)
            /\ counts' = Counted(counts, "skipped")
            /\ processedUrls' = processedUrls + 1
       ELSE /\ articlePhase' = [articlePhase EXCEPT ![u] = "scraping"]
            /\ published' = Publish(u, <<ProgressEvent(u, NoStep, "processing", NoError)>>)
            /\ UNCHANGED <<counts, processedUrls>>
    /\ capabilityCalls' = [capabilityCalls EXCEPT ![u] = @ \cup {"dedup"}]
    /\ UNCHANGED <<store, previewFetch, jobUrls, jobIdx, jobPc, jobStatus, eventQueue>>

\* any step -> error: the article ends, its siblings go on
StepFails(u, phase, capability) ==
    /\ articlePhase' = [articlePhase EXCEPT ![u] = "error"]
    /\ published' = Publish(u, <<ProgressEvent(u, phase, "error", "msg")>>)
    /\ counts' = Counted(counts, "error")
    /\ processedUrls' = processedUrls + 1
    /\ capabilityCalls' = [capabilityCalls EXCEPT ![u] = @ \cup {capability}]
    /\ UNCHANGED store

\* scraping -> extracting, or -> error
Scrape(u) ==
    /\ jobStatus = "processing"
    /\ u \in DOMAIN articlePhase
    /\ articlePhase[u] = "scraping"
    /\ \/ /\ articlePhase' = [articlePhase EXCEPT ![u] = "extracting"]
          /\ published' = Publish(u, <<ProgressEvent(u, "scraped", "processing", NoError),
                                       ProgressEvent(u, "extracting", "processing", NoError)>>)
          /\ capabilityCalls' = [capabilityCalls EXCEPT ![u] = @ \cup {"scrape"}]
          /\ UNCHANGED <<counts, processedUrls, store>>
       \/ StepFails(u, NoStep, "scrape")
    /\ UNCHANGED <<previewFetch, jobUrls, jobIdx, jobPc, jobStatus, eventQueue>>

\* extracting -> translating, or -> error
Extract(u) ==
    /\ jobStatus = "processing"
    /\ u \in DOMAIN articlePhase
    /\ articlePhase[u] = "extracting"
    /\ \/ /\ articlePhase' = [articlePhase EXCEPT ![u] = "translating"]
          /\ published' = Publish(u, <<ProgressEvent(u, "extracted", "processing", NoError),
                                       ProgressEvent(u, "translating", "processing", NoError)>>)
          /\ capabilityCalls' = [capabilityCalls EXCEPT ![u] = @ \cup {"extract"}]
          /\ UNCHANGED <<counts, processedUrls, store>>
       \/ StepFails(u, "extracting", "extract")
    /\ UNCHANGED <<previewFetch, jobUrls, jobIdx, jobPc, jobStatus, eventQueue>>

\* translating -> done (the article is saved), or -> error
Translate(u) ==
    /\ jobStatus = "processing"
    /\ u \in DOMAIN articlePhase
    /\ articlePhase[u] = "translating"
    /\ \/ /\ articlePhase' = [articlePhase EXCEPT ![u] = "done"]
          /\ published' = Publish(u, <<ProgressEvent(u, NoStep, "success", NoError)>>)
          /\ capabilityCalls' = [capabilityCalls EXCEPT ![u] = @ \cup {"translate", "save"}]
          /\ counts' = Counted(counts, "success")
          /\ processedUrls' = processedUrls + 1
          /\ store' = store \cup {u}
       \/ StepFails(u, "translating", "translate")
    /\ UNCHANGED <<previewFetch, jobUrls, jobIdx, jobPc, jobStatus, eventQueue>>

\* All articles are terminal: the one final event, completed, or failed after
\* a job-level fault.
Finish(status) ==
    /\ jobStatus = "processing"
    /\ \A u \in DOMAIN articlePhase : articlePhase[u] \in TerminalPhases
    /\ jobStatus' = status
    /\ published' = Publish(NoUrl, <<TerminalEvent(status, counts, Len(jobUrls))>>)
    /\ UNCHANGED <<articlePhase, counts, capabilityCalls, store, previewFetch,
                   jobUrls, jobIdx, jobPc, processedUrls, eventQueue>>

\* startCollection(articles) has created the job; every article is pending.
InitSpecCollect ==
    /\ InitFold
    /\ InitPage
    /\ InitBackend
    /\ jobUrls \in CollectJobs
    /\ jobIdx = 0
    /\ jobPc = "none"
    /\ jobStatus = "processing"
    /\ processedUrls = 0
    /\ eventQueue = <<>>
    /\ articlePhase = [u \in { jobUrls[k] : k \in 1..Len(jobUrls) } |-> "pending"]
    /\ published = [u \in { jobUrls[k] : k \in 1..Len(jobUrls) } \cup {NoUrl} |-> <<>>]
    /\ counts = NoCounts
    /\ capabilityCalls = [u \in { jobUrls[k] : k \in 1..Len(jobUrls) } |-> {}]
    /\ InitStream
    /\ InitSession

NextCollect ==
    \/ (\E u \in CatalogUrls : ExternalSave(u)) /\ UNCHANGED <<foldVars, pageVars, streamVars, sessionVars>>
    \/ (\E u \in CatalogUrls : TakeUp(u)) /\ UNCHANGED <<foldVars, pageVars, streamVars, sessionVars>>
    \/ (\E u \in CatalogUrls : Scrape(u)) /\ UNCHANGED <<foldVars, pageVars, streamVars, sessionVars>>
    \/ (\E u \in CatalogUrls : Extract(u)) /\ UNCHANGED <<foldVars, pageVars, streamVars, sessionVars>>
    \/ (\E u \in CatalogUrls : Translate(u)) /\ UNCHANGED <<foldVars, pageVars, streamVars, sessionVars>>
    \/ (\E status \in {"completed", "failed"} : Finish(status)) /\ UNCHANGED <<foldVars, pageVars, streamVars, sessionVars>>

SpecCollect == InitSpecCollect /\ [][NextCollect]_vars

-----------------------------------------------------------------------------
(* Claims about the fold *)

\* The events of one URL, in arrival order.
EventsOf(evs, u) == SelectSeq(evs, LAMBDA e : e.current_url = u)

\* One fixed interleaving of the per-URL subsequences of evs: URL by URL.
Canon(evs) ==
    EventsOf(evs, "u1") \o EventsOf(evs, "u2") \o EventsOf(evs, UntrackedUrl)
        \o EventsOf(evs, NoUrl)

AllCompleted(state) ==
    /\ state.scrapeStatus = "completed"
    /\ state.extractStatus = "completed"
    /\ state.translateStatus = "completed"

\* C2: in every state reached by folding events (each once, in arrival order)
\* from the all-pending map, an entry whose overallStatus is skipped has its
\* three step statuses completed.
C2_SkippedImpliesAllCompleted ==
    \A u \in DOMAIN articleStates :
        articleStates[u].overallStatus = "skipped" => AllCompleted(articleStates[u])

\* An entry that was in error with partial progress and was then skipped.
C2_Witness ==
    \E u \in DOMAIN articleStates :
        /\ articleStates[u].overallStatus = "skipped"
        /\ articleStates[u].error # NoError
        /\ ~foldDue

\* C4: once the fold effect has run for the current events list, the index is
\* events.length - 1 and the map is the sequential fold of all received events
\* over the all-pending map: nothing skipped, nothing folded twice.
C4_FoldExactlyOnceInOrder ==
    ~foldDue =>
        /\ lastProcessedIndex = Len(events) - 1
        /\ articleStates =
               FoldSeq(InitialStates(TrackedArticles),
                       SubSeq(events, 1, lastProcessedIndex + 1))

\* Several events arrived between two runs of the effect and were folded.
C4_Witness ==
    /\ ~foldDue
    /\ lastBatchLen >= 2
    /\ Len(events) = 3
    /\ lastProcessedIndex = 2
    /\ \E u \in DOMAIN articleStates : articleStates[u].overallStatus = "error"
    /\ \E u \in DOMAIN articleStates : articleStates[u].overallStatus = "completed"

\* C8: the folded map depends only on each article's own subsequence of
\* events: it equals the fold of the URL-by-URL rearrangement of the received
\* events, so all interleavings of the same subsequences give the same map.
C8_InterleavingIndependent ==
    (~foldDue /\ lastProcessedIndex = Len(events) - 1) =>
        articleStates = FoldSeq(InitialStates(TrackedArticles), Canon(events))

\* The events of two articles arrived interleaved and were folded.
C8_Witness ==
    /\ ~foldDue
    /\ Len(events) = 3
    /\ lastProcessedIndex = 2
    /\ events[1].current_url = "u1"
    /\ events[2].current_url = "u2"
    /\ events[3].current_url = "u1"
    /\ events[1] # events[3]
    /\ Canon(events) # events
    /\ articleStates["u2"].overallStatus # "pending"

-----------------------------------------------------------------------------
(* Claims about the merge *)

\* C3: in the combined list every duplicate comes after every non-duplicate,
\* and within each of the two partitions dated items come first, newest
\* first, and undated items last.
C3_MergeOrder ==
    \A i, j \in 1..Len(combinedArticles) :
        i < j =>
            LET a == combinedArticles[i]
                b == combinedArticles[j]
            IN /\ ~(~IsNew(a) /\ IsNew(b))
               /\ (IsNew(a) = IsNew(b)) =>
                      /\ (a.published_date = NoDate => b.published_date = NoDate)
                      /\ (a.published_date # NoDate /\ b.published_date # NoDate
                              => a.published_date >= b.published_date)

\* The same order, for responses in which every article carries is_duplicate.
C3_MergeOrderFlagsPresent ==
    (\A i \in 1..Len(combinedArticles) : combinedArticles[i].is_duplicate # "undefined")
        => C3_MergeOrder

-----------------------------------------------------------------------------
(* Claims about the preview *)

\* The articles of one source in the displayed list, in display order.
ShownOf(src) == SelectSeq(combinedArticles, LAMBDA a : a.sourceId = src)

\* What the page holds about the answered request.
PreviewShown ==
    /\ ~previewResult.isNull
    /\ previewError = NoError
    /\ ~isPreviewLoading
    /\ \A src \in SourceIds :
           IF src \in previewFetch.sources \ previewFetch.failed
           THEN /\ SeqUrls(ShownOf(src)) = SeqUrls(previewFetch.returned[src])
                /\ Len(ShownOf(src)) = Len(previewFetch.returned[src])
           ELSE ShownOf(src) = <<>>
    /\ Len(previewResult.warnings) = Cardinality(previewFetch.failed)
    /\ previewResult.total_count = Len(combinedArticles)
    /\ (previewFetch.failed = previewFetch.sources =>
           /\ combinedArticles = <<>>
           /\ previewResult.total_count = 0
           /\ Len(previewResult.warnings) = Cardinality(previewFetch.sources))

\* C7: when the aggregator answers a request in which some (or all) source
\* adapters failed, the page receives a result and no error; the list has
\* exactly the articles of the sources that succeeded and none of a failed
\* source, and one warning per failed source; if all failed it is empty.
C7_SourceFailuresBecomeWarnings ==
    [][(previewRequest.sent /\ previewFetch'.done) => PreviewShown']_vars

\* Two of three selected sources failed and the third one's articles are shown.
C7_Witness ==
    /\ previewFetch.done
    /\ previewFetch.sources = SourceIds
    /\ previewFetch.failed = {"ofcom", "soumu"}
    /\ Len(combinedArticles) = 2
    /\ Len(previewResult.warnings) = 2

-----------------------------------------------------------------------------
(* Claims about the job *)

\* The positions of the queue's events about one URL.
EventsAbout(link) ==
    { i \in 1..Len(eventQueue) : eventQueue[i].current_url = link \/ eventQueue[i].url = link }

\* The URLs whose success event has been emitted.
SucceededUrls ==
    { eventQueue[i].current_url : i \in { j \in 1..Len(eventQueue) : eventQueue[j].current_url # NoUrl } }

\* The URLs whose error event has been emitted.
FailedUrls ==
    { eventQueue[i].url : i \in { j \in 1..Len(eventQueue) : eventQueue[j].url # NoUrl } }

HasTerminalEvent == \E i \in 1..Len(eventQueue) : eventQueue[i].status \in {"completed", "failed"}

\* C5: an exception while processing one URL ends only that URL: the job is
\* never marked failed, every URL the loop has passed has exactly one event of
\* its own (success or error), and when the task is done every submitted URL
\* has one and the job's status is completed, even if every URL failed.
C5_ArticleErrorsDoNotFailJob ==
    /\ jobStatus # "failed"
    /\ \A k \in 1..Len(jobUrls) :
           (k < jobIdx \/ jobPc \in {"update_scrape_job_status", "send_completed", "done"})
               => /\ Cardinality(EventsAbout(jobUrls[k])) = 1
                  /\ eventQueue[k].processed = k
                  /\ k \in EventsAbout(jobUrls[k])
    /\ jobPc = "done" => jobStatus = "completed"

\* The task is done and every one of the two URLs failed.
C5_Witness ==
    /\ jobPc = "done"
    /\ Len(jobUrls) = 2
    /\ FailedUrls = { jobUrls[1], jobUrls[2] }
    /\ jobStatus = "completed"

JobTerminal ==
    /\ jobStatus \in {"completed", "failed"}
    /\ HasTerminalEvent
    /\ \A k \in 1..Len(jobUrls) : EventsAbout(jobUrls[k]) # {}

\* C6: every started job eventually has a terminal status, has emitted its
\* terminal event, and has left no URL without an outcome, whatever mix of
\* successes and errors its URLs have.
C6_JobEventuallyTerminal == <>JobTerminal

JobUrlSet == { jobUrls[k] : k \in 1..Len(jobUrls) }

\* C10 as stated: a preview run after the job was started shows every
\* submitted URL as a duplicate.
C10_PreviewAfterStartMarksAll ==
    previewFetch.done =>
        \A i \in 1..Len(combinedArticles) :
            combinedArticles[i].url \in JobUrlSet => combinedArticles[i].is_duplicate = "true"

-----------------------------------------------------------------------------
(* Claims about the collection job *)

\* The submitted URLs that ended with the given per-article state.
EndedAs(phase) == { u \in DOMAIN articlePhase : articlePhase[u] = phase }

\* C1: the counts carried by the terminal event (completed or failed) sum to
\* total, the number of submitted articles, and each count is the number of
\* articles that ended that way, whatever the outcomes and the interleaving.
C1_CountsSumToTotal ==
    jobStatus \in {"completed", "failed"} =>
        /\ Len(published[NoUrl]) = 1
        /\ LET ev == published[NoUrl][1]
           IN /\ ev.status = jobStatus
              /\ ev.total = Len(jobUrls)
              /\ ev.success_count + ev.skipped_count + ev.error_count = ev.total
              /\ ev.success_count = Cardinality(EndedAs("done"))
              /\ ev.skipped_count = Cardinality(EndedAs("skipped"))
              /\ ev.error_count = Cardinality(EndedAs("error"))

\* The job of two articles has ended, one skipped as a duplicate and one failed.
C1_Witness ==
    /\ jobStatus \in {"completed", "failed"}
    /\ Len(jobUrls) = 2
    /\ Cardinality(EndedAs("skipped")) = 1
    /\ Cardinality(EndedAs("error")) = 1
    /\ published[NoUrl][1].skipped_count = 1

\* Taking up an article whose URL is in the store by then.
SkipStep(u) ==
    /\ u \in DOMAIN articlePhase
    /\ articlePhase[u] = "pending"
    /\ articlePhase'[u] # "pending"
    /\ u \in store

\* C9: an article whose URL is in the store when collection takes it up goes
\* pending -> skipped, with a skipped event, counted as skipped and as nothing
\* else, and is never scraped, extracted, translated or saved by the job.
C9_KnownUrlIsSkipped ==
    [][\A u \in CatalogUrls :
          /\ SkipStep(u) =>
                /\ articlePhase'[u] = "skipped"
                /\ published'[u] = <<ProgressEvent(u, NoStep, "skipped", NoError)>>
                /\ counts' = [counts EXCEPT !.skipped = @ + 1]
                /\ store' = store
          /\ (u \in DOMAIN articlePhase /\ articlePhase[u] = "skipped") =>
                /\ articlePhase'[u] = "skipped"
                /\ published'[u] = published[u]
                /\ capabilityCalls'[u] = {"dedup"}]_vars

\* A URL stored by someone else after the job was created has been skipped
\* while its sibling went through the pipeline.
C9_Witness ==
    /\ Len(jobUrls) = 2
    /\ articlePhase[jobUrls[1]] = "skipped"
    /\ articlePhase[jobUrls[2]] = "done"
    /\ counts = [success |-> 1, skipped |-> 1, error |-> 0]
    /\ capabilityCalls[jobUrls[1]] = {"dedup"}

-----------------------------------------------------------------------------
(* Claims about the preview request *)

\* date_range is one month, or start~end with start before end.
WellFormedRange(range) ==
    \/ Len(range) = 1
    \/ Len(range) = 2 /\ range[1] < range[2]

\* C11: a click on the preview button with the start month after the end
\* month sends no request, touches no adapter and reports an error; every
\* date_range that is sent is a single month or start~end with start < end.
C11_InvertedRangeRejected ==
    [][/\ (ClickPreview /\ startMonth > endMonth) =>
              /\ previewError' = "invalid-range"
              /\ previewCall' = "invalid-range"
              /\ ~previewRequest'.sent
              /\ ~isPreviewLoading'
              /\ previewFetch' = previewFetch
       /\ previewRequest'.sent => WellFormedRange(previewRequest'.date_range)]_vars

\* The click with an inverted range has been rejected.
C11_Witness ==
    /\ previewCall = "invalid-range"
    /\ startMonth > endMonth
    /\ previewError = "invalid-range"
    /\ ~previewRequest.sent

\* C12: a preview request with an empty source list is rejected before any
\* I/O and the caller gets a validation error: the page sends no such request,
\* and the aggregator answers one from any other caller with ValidationError
\* without invoking an adapter.
C12_EmptySourcesRejected ==
    /\ previewRequest.sent => previewRequest.sources # {}
    /\ (previewFetch.done /\ previewFetch.sources = {}) =>
           /\ previewFetch.error = "ValidationError"
           /\ previewFetch.invoked = {}
           /\ previewFetch.returned = <<>>

\* A request with no source was rejected while no source was selected on the
\* page, whose own request was answered before.
C12_Witness ==
    /\ previewFetch.done
    /\ previewFetch.sources = {}
    /\ previewFetch.error = "ValidationError"
    /\ selectedSources = {}
    /\ ~previewResult.isNull
    /\ ~previewRequest.sent

-----------------------------------------------------------------------------
(* Claims about the subscription *)

\* The positions of the received events whose status is completed or failed.
TerminalPositions == { i \in 1..Len(events) : events[i].status \in {"completed", "failed"} }

\* C13: once an event with status completed or failed has been received, the
\* EventSource is closed, isConnected is false, and nothing is appended after
\* it: it is the last event of the list and the only terminal one.
C13_TerminalEventEndsSubscription ==
    TerminalPositions # {} =>
        /\ ~esOpen
        /\ ~isConnected
        /\ TerminalPositions = { Len(events) }

\* A failed event was received after an article event and ended the subscription.
C13_Witness ==
    /\ Len(events) = 2
    /\ events[1].current_url # NoUrl
    /\ events[2].status = "failed"
    /\ ~esOpen
    /\ ~isConnected

-----------------------------------------------------------------------------
(* Claims about the updater's rules *)

\* The events about a tracked URL.
TrackedEvents == { e \in AllEvents : e.current_url \in DOMAIN articleStates }

\* The entries of the other URLs are the same in both maps.
OthersUnchanged(old, new, u) ==
    /\ DOMAIN new = DOMAIN old
    /\ \A v \in DOMAIN old \ {u} : new[v] = old[v]

\* C14: folding an error event for a tracked URL sets overallStatus to error
\* and error to the event's message, and leaves the three step statuses (and
\* everything else) as they were, whatever the event's step is.
C14_ErrorKeepsSteps ==
    \A e \in TrackedEvents :
        e.status = "error" =>
            LET u == e.current_url
                old == articleStates[u]
                new == FoldEvent(articleStates, e)
            IN /\ new[u].overallStatus = "error"
               /\ new[u].error = e.error
               /\ new[u].scrapeStatus = old.scrapeStatus
               /\ new[u].extractStatus = old.extractStatus
               /\ new[u].translateStatus = old.translateStatus
               /\ new[u].url = old.url /\ new[u].title = old.title
               /\ new[u].source = old.source
               /\ OthersUnchanged(articleStates, new, u)

\* An article failed while being translated: its earlier progress is kept.
C14_Witness ==
    /\ articleStates["u1"].overallStatus = "error"
    /\ articleStates["u1"].error = "msg"
    /\ articleStates["u1"].scrapeStatus = "completed"
    /\ articleStates["u1"].extractStatus = "completed"
    /\ articleStates["u1"].translateStatus = "processing"

\* The entry the step rule gives.
StepRule(old, step) ==
    [old EXCEPT
        !.scrapeStatus = IF step = NoStep THEN @ ELSE "completed",
        !.extractStatus = IF step = "extracting" THEN "processing"
                          ELSE IF step \in {"extracted", "translating"} THEN "completed"
                          ELSE @,
        !.translateStatus = IF step = "translating" THEN "processing" ELSE @,
        !.overallStatus = IF step = NoStep THEN @ ELSE "processing"]

\* C15: folding an event whose status is neither skipped nor error for a
\* tracked URL gives the entry of the step rule, and for status success the
\* entry with the three steps and overallStatus completed; with no step and
\* another status the entry is unchanged.
C15_StepRules ==
    \A e \in TrackedEvents :
        e.status \notin {"skipped", "error"} =>
            LET u == e.current_url
                old == articleStates[u]
                new == FoldEvent(articleStates, e)
            IN /\ new[u] = IF e.status = "success"
                           THEN [old EXCEPT !.scrapeStatus = "completed",
                                            !.extractStatus = "completed",
                                            !.translateStatus = "completed",
                                            !.overallStatus = "completed"]
                           ELSE StepRule(old, e.step)
               /\ (e.step = NoStep /\ e.status # "success") => new = articleStates
               /\ OthersUnchanged(articleStates, new, u)

\* An extracting event arrived for an article nothing was known about.
C15_Witness ==
    /\ articleStates["u2"].scrapeStatus = "completed"
    /\ articleStates["u2"].extractStatus = "processing"
    /\ articleStates["u2"].translateStatus = "pending"
    /\ articleStates["u2"].overallStatus = "processing"

\* C16: in every state reached by folding events, an entry whose
\* overallStatus is completed has its three step statuses completed.
C16_CompletedImpliesAllCompleted ==
    \A u \in DOMAIN articleStates :
        articleStates[u].overallStatus = "completed" =>
            /\ articleStates[u].scrapeStatus = "completed"
            /\ articleStates[u].extractStatus = "completed"
            /\ articleStates[u].translateStatus = "completed"

\* An article completed by a success event that came with no step event before it,
\* next to one that failed.
C16_Witness ==
    /\ articleStates["u1"].overallStatus = "completed"
    /\ articleStates["u1"].translateStatus = "completed"
    /\ articleStates["u2"].overallStatus = "error"
    /\ articleStates["u2"].scrapeStatus = "pending"

-----------------------------------------------------------------------------
(* Claims about the job's lifecycle *)

\* C17 as stated: a job is pending until its first progress event, then
\* processing, and whenever its status is completed its processed counter
\* equals total.
C17_CompletedMeansAllProcessed ==
    /\ (jobStatus = "pending" => eventQueue = <<>>)
    /\ (jobStatus = "completed" => processedUrls = Len(jobUrls))

-----------------------------------------------------------------------------
(* Claims about the stream's readers *)

\* C18 as stated: an event published while two subscribers are attached
\* reaches both; once nothing is waiting in the queue or in a generator, and
\* neither subscriber has disconnected, each has every event the other has.
C18_EveryReaderGetsEveryEvent ==
    (/\ eventQueue = <<>>
     /\ \A r \in Readers : fetched[r] = <<>> /\ generatorPc[r] # "closed")
        => received["r1"] = received["r2"]

-----------------------------------------------------------------------------
(* Claims about the queue *)

\* The place of an event in the job's publication order.
PublicationIndex(ev) == IF ev.status = "completed" THEN Len(jobUrls) + 1 ELSE ev.processed

\* The number of events the job has published.
PublishedCount ==
    IF jobPc = "created" THEN 0
    ELSE IF jobPc = "done" THEN Len(jobUrls) + 1
    ELSE IF jobPc \in {"update_scrape_job_status", "send_completed", "aborted"} THEN Len(jobUrls)
    ELSE jobIdx - 1

\* The sequence's events are in publication order.
InPublicationOrder(seq) ==
    \A i \in 1..(Len(seq) - 1) : PublicationIndex(seq[i]) < PublicationIndex(seq[i + 1])

\* C19: the queue never holds more than 100 events; what it holds is the
\* unbroken run of the newest events published since the last read, so a full
\* queue has dropped its oldest events and never the newest (the completed
\* event stays), and what the reader has been given and is still to be given
\* is in publication order.
C19_QueueBoundedOldestDropped ==
    /\ Len(eventQueue) <= QueueMaxLen
    /\ \A i \in 1..(Len(eventQueue) - 1) :
           PublicationIndex(eventQueue[i + 1]) = PublicationIndex(eventQueue[i]) + 1
    /\ (eventQueue # <<>> =>
           PublicationIndex(eventQueue[Len(eventQueue)]) = PublishedCount)
    /\ (eventQueue = <<>> /\ PublishedCount > 0 /\ generatorPc["r1"] # "closed" =>
           LET taken == received["r1"] \o fetched["r1"] IN
           /\ taken # <<>>
           /\ PublicationIndex(taken[Len(taken)]) = PublishedCount)
    /\ InPublicationOrder(received["r1"] \o fetched["r1"] \o eventQueue)

\* Every event was published without a read: the queue is full, the oldest
\* events are gone and the completed event is the last one.
C19_Witness ==
    /\ jobPc = "done"
    /\ received["r1"] = <<>>
    /\ Len(eventQueue) = QueueMaxLen
    /\ eventQueue[1].processed = MaxPublished - QueueMaxLen + 1
    /\ eventQueue[QueueMaxLen].status = "completed"

-----------------------------------------------------------------------------
(* Claims about the worker pool *)

\* C20: at every moment of a collection job at most MaxConcurrent (3)
\* articles are between leaving pending and reaching done, skipped or error.
C20_PipelineBounded == Cardinality(InPipeline) <= MaxConcurrent

\* Three articles are in the pipeline, at different steps, and the fourth waits.
C20_Witness ==
    /\ Len(jobUrls) = 4
    /\ Cardinality(InPipeline) = MaxConcurrent
    /\ \E u \in DOMAIN articlePhase : articlePhase[u] = "pending"
    /\ \E u, v \in InPipeline : articlePhase[u] = "scraping" /\ articlePhase[v] = "translating"

-----------------------------------------------------------------------------
(* Claims about what a fold may touch *)

\* C22: folding an event changes at most the entry of the event's
\* current_url: an event with no current_url, or with one that is not
\* tracked, leaves the whole map as it was, and no fold adds or removes a key
\* or changes the url, title or source of an entry.
C22_FoldTouchesOnlyItsEntry ==
    \A e \in AllEvents :
        LET new == FoldEvent(articleStates, e)
        IN /\ DOMAIN new = DOMAIN articleStates
           /\ \A v \in DOMAIN articleStates :
                  /\ v # e.current_url => new[v] = articleStates[v]
                  /\ new[v].url = articleStates[v].url
                  /\ new[v].title = articleStates[v].title
                  /\ new[v].source = articleStates[v].source
           /\ (e.current_url = NoUrl \/ e.current_url \notin DOMAIN articleStates)
                  => new = articleStates

\* One article was skipped while nothing is known about the other one yet.
C22_Witness ==
    /\ articleStates["u1"].overallStatus = "skipped"
    /\ articleStates["u2"].overallStatus = "pending"
    /\ articleStates["u2"].scrapeStatus = "pending"
    /\ DOMAIN articleStates = TrackedUrls

-----------------------------------------------------------------------------
(* Claims about ties in the merge *)

\* The position of a displayed article in the concatenation fcc, ofcom,
\* soumu of the response it came from.
ConcatenationIndex(a) ==
    CHOOSE k \in 1..Len(Concatenated(previewResult.data)) :
        Concatenated(previewResult.data)[k].url = a.url

\* Two articles the comparator's rules do not order: the same is_duplicate
\* and the same published_date, or both without one.
Tie(a, b) ==
    /\ a.is_duplicate = b.is_duplicate
    /\ a.published_date = b.published_date

\* C30: articles that tie in the merge (same duplicate status and same
\* published_date, two undated articles included) are displayed in their
\* concatenation order: fcc before ofcom before soumu, and within a source
\* in the order of the response.
C30_TiesKeepConcatenationOrder ==
    ~previewResult.isNull =>
        \A i, j \in 1..Len(combinedArticles) :
            (i < j /\ Tie(combinedArticles[i], combinedArticles[j])) =>
                ConcatenationIndex(combinedArticles[i])
                    < ConcatenationIndex(combinedArticles[j])

\* The same order, for responses in which every article carries is_duplicate.
C30_TiesKeepOrderFlagsPresent ==
    (\A i \in 1..Len(combinedArticles) : combinedArticles[i].is_duplicate # "undefined")
        => C30_TiesKeepConcatenationOrder

-----------------------------------------------------------------------------
(* SpecPipeline: the hook and the fold, fed by a job whose events about each  *)
(* article come in the order of the pipeline.                                 *)

\* The step events of one article, in the order of the pipeline.
PipelineSteps == <<"scraped", "extracting", "extracted", "translating">>

\* The events about an article that end its pipeline.
EndsArticle(e) == e.status \in {"success", "error", "skipped"}

\* The events a job in pipeline order can send next about u, after evs: the
\* next step, success after the last step, an error at any point, or skipped
\* as the only event; nothing once the article has ended.
NextPipelineEvents(evs, u) ==
    LET mine == EventsOf(evs, u)
        n == Len(mine)
    IN IF \E i \in 1..n : EndsArticle(mine[i]) THEN {}
       ELSE (IF n < Len(PipelineSteps)
             THEN {ProgressEvent(u, PipelineSteps[n + 1], "processing", NoError)}
             ELSE {ProgressEvent(u, NoStep, "success", NoError)})
            \cup {ProgressEvent(u, IF n = 0 THEN NoStep ELSE PipelineSteps[n],
                                "error", "msg")}
            \cup (IF n = 0 THEN {ProgressEvent(u, NoStep, "skipped", NoError)} ELSE {})

\* eventSource.onmessage for the next event of such a job: about an article,
\* or the job's terminal event.
OnPipelineMessage ==
    /\ esOpen
    /\ isConnected
    /\ \E e \in UNION { NextPipelineEvents(events, u) : u \in TrackedUrls }
                \cup { ProgressEvent(NoUrl, NoStep, "completed", NoError) } :
           /\ events' = Append(events, e)
           /\ esOpen' = ~IsTerminalEvent(e)
           /\ isConnected' = ~IsTerminalEvent(e)
    /\ foldDue' = TRUE
    /\ UNCHANGED <<articleStates, lastProcessedIndex, lastBatchLen>>

InitSpecPipeline ==
    /\ InitFold
    /\ InitPage
    /\ InitBackend
    /\ InitRunner
    /\ InitCollect
    /\ InitStream
    /\ InitSession

NextPipeline ==
    \/ OnOpen /\ UNCHANGED <<pageVars, backendVars, runnerVars, collectVars, streamVars, sessionVars>>
    \/ OnPipelineMessage /\ UNCHANGED <<pageVars, backendVars, runnerVars, collectVars, streamVars, sessionVars>>
    \/ FoldEffect /\ UNCHANGED <<pageVars, backendVars, runnerVars, collectVars, streamVars, sessionVars>>

SpecPipeline == InitSpecPipeline /\ [][NextPipeline]_vars

\* const progress = useMemo(...): the number of completed steps ...
completedSteps(states) ==
    Cardinality({ <<u, f>> \in (DOMAIN states) \X {"scrape", "extract", "translate"} :
                      \/ f = "scrape" /\ states[u].scrapeStatus = "completed"
                      \/ f = "extract" /\ states[u].extractStatus = "completed"
                      \/ f = "translate" /\ states[u].translateStatus = "completed" })

\* ... over three steps per article
totalSteps(states) == Cardinality(DOMAIN states) * 3

\* progress(old) <= progress(new), the quotients compared by cross
\* multiplication; the progress of an empty map is 0.
ProgressNotLower(old, new) ==
    IF DOMAIN old = {} THEN TRUE
    ELSE IF DOMAIN new = {} THEN completedSteps(old) = 0
    ELSE completedSteps(old) * totalSteps(new) <= completedSteps(new) * totalSteps(old)

\* C28: when each article's events arrive in pipeline order, an entry whose
\* overallStatus has become completed, skipped or error is never changed
\* again, and the overall progress never decreases from one fold to the next.
C28_EndedEntriesKeptProgressMonotone ==
    [][ /\ \A u \in DOMAIN articleStates :
               articleStates[u].overallStatus \in {"completed", "skipped", "error"}
                   => /\ u \in DOMAIN articleStates'
                      /\ articleStates'[u] = articleStates[u]
        /\ ProgressNotLower(articleStates, articleStates') ]_vars

\* One article completed its pipeline, and the fold then went on with the
\* other one, which failed after its extraction.
C28_Witness ==
    /\ ~foldDue
    /\ lastProcessedIndex = Len(events) - 1
    /\ Len(events) >= 9
    /\ articleStates["u1"].overallStatus = "completed"
    /\ articleStates["u2"].overallStatus = "error"
    /\ articleStates["u2"].extractStatus = "completed"
    /\ events[5].status = "success"
    /\ events[5].current_url = "u1"

-----------------------------------------------------------------------------
(* ScrapePage: starting a collection, and the progress modal it opens *)

\* selectableArticles.filter(a => selectedUrls.has(a.url))
selectedArticles(combined, urls) ==
    SelectSeq(selectableArticles(combined), LAMBDA a : a.url \in urls)

\* const selectedCount = useMemo(...)
selectedCount == Len(selectedArticles(combinedArticles, selectedUrls))

\* const newArticlesCount = useMemo(...)
newArticlesCount == Len(selectableArticles(combinedArticles))

\* A mutant of StartRequestUrls: every new article is submitted, selected or not.
StartRequestAllNew(combined, urls) == SeqUrls(selectableArticles(combined))

\* selected_articles of the start request, by URL
StartRequestUrls(combined, urls) == SeqUrls(selectedArticles(combined, urls))

\* handleStartAutoCollect, from the call to the await.
handleStartAutoCollect ==
    /\ IF selectedCount = 0
       THEN /\ previewError' = "nothing-selected"
            /\ startCall' = "nothing-selected"
            /\ UNCHANGED <<isStartingAutoCollect, startRequest>>
       ELSE /\ isStartingAutoCollect' = TRUE
            /\ previewError' = NoError
            /\ startRequest' = [sent |-> TRUE,
                                urls |-> StartRequestUrls(combinedArticles, selectedUrls)]
            /\ startCall' = "request"
    /\ UNCHANGED <<selectedSources, isPreviewLoading, previewResult, selectedUrls,
                   combinedArticles, previewRequest, startMonth, endMonth, previewCall,
                   currentJobId, progressModalOpen, createdJob>>

\* The start button is rendered and not disabled.
StartButtonEnabled ==
    /\ ~previewResult.isNull
    /\ newArticlesCount > 0
    /\ ~isStartingAutoCollect
    /\ selectedCount # 0

\* A click on the enabled start button.
ClickStart ==
    /\ StartButtonEnabled
    /\ handleStartAutoCollect

\* handleStartAutoCollect after `await startAutoCollect(...)` returned: the
\* backend has created the job for the submitted articles.
StartResolve ==
    /\ startRequest.sent
    /\ createdJob' = [id |-> NewJobId(createdJob.id), urls |-> startRequest.urls]
    /\ startRequest' = NoStart
    /\ currentJobId' = createdJob'.id
    /\ progressModalOpen' = TRUE
    /\ isStartingAutoCollect' = FALSE
    /\ closeCall' = "none"
    /\ UNCHANGED <<pageVars, startCall>>

\* handleStartAutoCollect when the await throws
StartReject ==
    /\ startRequest.sent
    /\ startRequest' = NoStart
    /\ previewError' = "start-failed"
    /\ isStartingAutoCollect' = FALSE
    /\ UNCHANGED <<selectedSources, isPreviewLoading, previewResult, selectedUrls,
                   combinedArticles, previewRequest, startMonth, endMonth, previewCall,
                   currentJobId, progressModalOpen, startCall, createdJob>>

\* handleModalClose(false)
handleModalClose ==
    /\ progressModalOpen' = FALSE
    /\ currentJobId' = NoJob
    /\ previewResult' = NullPreview
    /\ combinedArticles' = <<>>
    /\ UNCHANGED <<selectedSources, isPreviewLoading, previewError, selectedUrls,
                   previewRequest, startMonth, endMonth, previewCall,
                   isStartingAutoCollect, startRequest, startCall, createdJob>>

\* A mutant of isProcessing: the job counts as processing while the
\* connection is open.
isProcessingWhileOpen == esOpen

\* const latestEvent = events[events.length - 1]; isCompleted, isFailed
isCompleted == events # <<>> /\ events[Len(events)].status = "completed"
isFailed == events # <<>> /\ events[Len(events)].status = "failed"
isProcessing == ~isCompleted /\ ~isFailed

\* A mutant of DepsChanged: the callbacks are dependencies of the effect, and
\* the modal passes new ones at every render.
DepsChangedWithCallbacks(endpoint, newEndpoint) == TRUE

\* Whether the dependencies [endpoint] of the hook's effect differ between two
\* renders.
DepsChanged(endpoint, newEndpoint) == endpoint # newEndpoint

\* if (open && selectedArticles.length > 0), of the init effect
InitEffectActs(open, selected) == open /\ Len(selected) > 0

\* The init effect of the modal is pending and resets the map and the index.
InitEffectApplies ==
    /\ initDue
    /\ InitEffectActs(progressModalOpen, selectedArticles(combinedArticles, selectedUrls))

\* The map and the index the pending init effect leaves.
AfterInitStates ==
    IF InitEffectApplies
    THEN InitialStates(selectedArticles(combinedArticles, selectedUrls))
    ELSE articleStates

AfterInitIndex == IF InitEffectApplies THEN -1 ELSE lastProcessedIndex

\* The fold effect has new events to fold, after the init effect.
FoldApplies ==
    /\ foldDue
    /\ Len(events) # 0
    /\ AfterInitIndex + 1 < Len(events)

\* The pending effects of the latest render run, in the order of their
\* declaration: the init effect, the hook's effect (the cleanup of its
\* previous run first), the fold effect.
FlushEffects ==
    /\ articleStates' =
           IF FoldApplies
           THEN FoldSeq(AfterInitStates, NewEvents(events, AfterInitIndex + 1))
           ELSE AfterInitStates
    /\ lastProcessedIndex' = IF FoldApplies THEN Len(events) - 1 ELSE AfterInitIndex
    /\ lastBatchLen' = IF FoldApplies
                       THEN Len(NewEvents(events, AfterInitIndex + 1))
                       ELSE lastBatchLen
    /\ foldDue' = FALSE
    /\ IF sseDue
       THEN /\ isConnected' = FALSE
            /\ IF currentJobId = NoJob
               THEN /\ esOpen' = FALSE
                    /\ UNCHANGED <<events, streamJob, connections>>
               ELSE /\ events' = <<>>
                    /\ esOpen' = TRUE
                    /\ streamJob' = currentJobId
                    /\ connections' = IF currentJobId = streamJob
                                      THEN connections + 1 ELSE 1
       ELSE UNCHANGED <<events, esOpen, isConnected, streamJob, connections>>

\* A render of the page and of the modal in it: React runs the effects still
\* pending from the previous render, then renders. selectedArticles is a new
\* array at every render of the page, so the init effect runs after each of
\* them; it is pending when it has something to do. The hook's effect is
\* pending when its dependencies changed.
PageRender ==
    /\ FlushEffects
    /\ initDue' = InitEffectActs(progressModalOpen',
                                selectedArticles(combinedArticles', selectedUrls'))
    /\ sseDue' = DepsChanged(currentJobId, currentJobId')

\* The pending effects run on their own, and the modal renders their updates.
RunEffects ==
    /\ initDue \/ sseDue \/ foldDue
    /\ FlushEffects
    /\ initDue' = FALSE
    /\ sseDue' = DepsChanged(currentJobId, currentJobId)
    /\ UNCHANGED <<pageVars, isStartingAutoCollect, startRequest, currentJobId,
                   progressModalOpen, startCall, closeCall, createdJob>>

\* A render of the modal alone, after an update of the hook's state.
HookRender ==
    /\ sseDue' = (sseDue \/ DepsChanged(currentJobId, currentJobId))
    /\ UNCHANGED <<pageVars, isStartingAutoCollect, startRequest, currentJobId,
                   progressModalOpen, startCall, closeCall, createdJob, streamJob,
                   connections, initDue>>

\* handleClose of the modal: the dialog asked to close.
RequestClose ==
    /\ progressModalOpen
    /\ IF isProcessing
       THEN /\ closeCall' = "ignored"
            /\ UNCHANGED <<foldVars, pageVars, isStartingAutoCollect, startRequest,
                           currentJobId, progressModalOpen, startCall, createdJob,
                           streamJob, connections, initDue, sseDue>>
       ELSE /\ closeCall' = "closed"
            /\ handleModalClose
            /\ PageRender

\* handleNewScrape, from its button in the footer of a job that completed or
\* failed: onOpenChange(false), without handleClose.
handleNewScrape ==
    /\ progressModalOpen
    /\ isCompleted \/ isFailed
    /\ handleModalClose
    /\ PageRender
    /\ UNCHANGED closeCall

\* handleGoToArticles, from its button in the footer of a job that completed:
\* onOpenChange(false), then the router is asked for /articles.
handleGoToArticles ==
    /\ progressModalOpen
    /\ isCompleted
    /\ handleModalClose
    /\ PageRender
    /\ UNCHANGED closeCall

\* The events the stream of the job can carry next: one success event per
\* submitted article, and the job's terminal event.
SessionEvents ==
    { ProgressEvent(u, NoStep, "success", NoError) :
          u \in { v \in createdJob.urls : EventsOf(events, v) = <<>> } }
    \cup { ProgressEvent(NoUrl, NoStep, "completed", NoError),
           ProgressEvent(NoUrl, NoStep, "failed", "msg") }

\* eventSource.onmessage, for an event of the job
OnSessionMessage(e) ==
    /\ esOpen
    /\ isConnected
    /\ events' = Append(events, e)
    /\ esOpen' = ~IsTerminalEvent(e)
    /\ isConnected' = ~IsTerminalEvent(e)
    /\ foldDue' = TRUE
    /\ UNCHANGED <<articleStates, lastProcessedIndex, lastBatchLen>>

-----------------------------------------------------------------------------
(* SpecSession: previews, selections, starts of collections and the modal,  *)
(* one job after another, while the ofcom and soumu adapters are failing    *)
(* and the fcc adapter answers. Every preview and start request is          *)
(* answered; SpecStart has the requests that throw.                         *)

\* The page and the modal after mounting.
InitSpecSession ==
    /\ events = <<>>
    /\ esOpen = FALSE
    /\ isConnected = FALSE
    /\ articleStates = <<>>
    /\ lastProcessedIndex = -1
    /\ foldDue = FALSE
    /\ lastBatchLen = 0
    /\ selectedSources = {"fcc", "ofcom", "soumu"}
    /\ isPreviewLoading = FALSE
    /\ previewResult = NullPreview
    /\ previewError = NoError
    /\ selectedUrls = {}
    /\ combinedArticles = <<>>
    /\ previewRequest = NoRequest
    /\ startMonth = NumMonths
    /\ endMonth = NumMonths
    /\ previewCall = "none"
    /\ InitRunner
    /\ InitCollect
    /\ InitStream
    /\ InitSession
    /\ InitBackend

\* Of the sources asked, the adapters of the given ones fail for the request
\* being answered and the others return their articles; the response has no
\* key for a failed source.
AdaptersDown(down) ==
    /\ previewFetch'.failed = previewFetch'.sources \cap down
    /\ DOMAIN previewResult'.data \cap down = {}

\* The modal is a Dialog, kept open by its `open` prop: while it is open the
\* page behind it takes no click and no key.
PageInert == progressModalOpen

\* The handler that ran gave some state of the page a value React does not
\* take for the one it holds (Object.is): a string, a boolean or null that
\* differs, or a Set or an array, which the handlers build anew.
SetsState(newObject) ==
    \/ newObject
    \/ <<isPreviewLoading, previewResult, previewError, startMonth, endMonth,
          isStartingAutoCollect, currentJobId, progressModalOpen>>'
           # <<isPreviewLoading, previewResult, previewError, startMonth, endMonth,
               isStartingAutoCollect, currentJobId, progressModalOpen>>

\* A handler of the page ran, from a control the page shows enabled: the page
\* renders with what the handler set, and when it set nothing new React
\* renders nothing and runs no effect.
PageInput(rest, newObject) ==
    /\ ~PageInert
    /\ UNCHANGED rest
    /\ IF SetsState(newObject)
       THEN PageRender
       ELSE UNCHANGED <<foldVars, streamJob, connections, initDue, sseDue>>

NextSession ==
    \/ /\ ClickPreview
       /\ PageInput(<<store, runnerVars, collectVars, streamVars, isStartingAutoCollect,
                      startRequest, currentJobId, progressModalOpen, startCall,
                      closeCall, createdJob>>, FALSE)
    \/ /\ PreviewRespond
       /\ AdaptersDown({"ofcom", "soumu"})
       /\ UNCHANGED <<runnerVars, collectVars, streamVars, isStartingAutoCollect,
                      startRequest, currentJobId, progressModalOpen, startCall,
                      closeCall, createdJob>>
       /\ PageRender
    \/ /\ \E url \in SeqUrls(combinedArticles), checked \in BOOLEAN :
              ArticleToggle(url, checked)
       /\ PageInput(<<backendVars, runnerVars, collectVars, streamVars,
                      isStartingAutoCollect, startRequest, currentJobId,
                      progressModalOpen, startCall, closeCall, createdJob>>, TRUE)
    \/ /\ \E checked \in BOOLEAN : SelectAll(checked)
       /\ PageInput(<<backendVars, runnerVars, collectVars, streamVars,
                      isStartingAutoCollect, startRequest, currentJobId,
                      progressModalOpen, startCall, closeCall, createdJob>>, TRUE)
    \/ /\ ClickStart
       /\ PageInput(<<backendVars, runnerVars, collectVars, streamVars, closeCall>>, FALSE)
    \/ /\ StartResolve
       /\ UNCHANGED <<backendVars, runnerVars, collectVars, streamVars>>
       /\ PageRender
    \/ RunEffects /\ UNCHANGED <<backendVars, runnerVars, collectVars, streamVars>>
    \/ OnOpen /\ HookRender /\ UNCHANGED <<backendVars, runnerVars, collectVars, streamVars>>
    \/ /\ streamJob = createdJob.id
       /\ \E e \in SessionEvents : OnSessionMessage(e)
       /\ HookRender
       /\ UNCHANGED <<backendVars, runnerVars, collectVars, streamVars>>
    \/ OnError /\ HookRender /\ UNCHANGED <<backendVars, runnerVars, collectVars, streamVars>>
    \/ RequestClose /\ UNCHANGED <<backendVars, runnerVars, collectVars, streamVars>>
    \/ handleNewScrape /\ UNCHANGED <<backendVars, runnerVars, collectVars, streamVars>>
    \/ handleGoToArticles /\ UNCHANGED <<backendVars, runnerVars, collectVars, streamVars>>

SpecSession == InitSpecSession /\ [][NextSession]_vars

-----------------------------------------------------------------------------
(* SpecStart: the page from its first render to the opening of the modal:   *)
(* months, previews, selections and calls of handleStartAutoCollect, while  *)
(* the soumu adapter is failing and the other two answer.                   *)

InitSpecStart ==
    /\ events = <<>>
    /\ esOpen = FALSE
    /\ isConnected = FALSE
    /\ articleStates = <<>>
    /\ lastProcessedIndex = -1
    /\ foldDue = FALSE
    /\ lastBatchLen = 0
    /\ selectedSources = {"fcc", "ofcom", "soumu"}
    /\ isPreviewLoading = FALSE
    /\ previewResult = NullPreview
    /\ previewError = NoError
    /\ selectedUrls = {}
    /\ combinedArticles = <<>>
    /\ previewRequest = NoRequest
    /\ startMonth = NumMonths
    /\ endMonth = NumMonths
    /\ previewCall = "none"
    /\ InitRunner
    /\ InitCollect
    /\ InitStream
    /\ InitSession
    /\ store \in SUBSET {"f1"}
    /\ previewFetch = NoFetch

NextStart ==
    \/ /\ \E m \in Months : SetStartMonth(m)
       /\ PageInput(<<backendVars, runnerVars, collectVars, streamVars,
                      isStartingAutoCollect, startRequest, currentJobId,
                      progressModalOpen, startCall, closeCall, createdJob>>, FALSE)
    \/ /\ \E m \in Months : SetEndMonth(m)
       /\ PageInput(<<backendVars, runnerVars, collectVars, streamVars,
                      isStartingAutoCollect, startRequest, currentJobId,
                      progressModalOpen, startCall, closeCall, createdJob>>, FALSE)
    \/ /\ ClickPreview
       /\ PageInput(<<store, runnerVars, collectVars, streamVars, isStartingAutoCollect,
                      startRequest, currentJobId, progressModalOpen, startCall,
                      closeCall, createdJob>>, FALSE)
    \/ /\ PreviewRespond
       /\ AdaptersDown({"soumu"})
       /\ UNCHANGED <<runnerVars, collectVars, streamVars, isStartingAutoCollect,
                      startRequest, currentJobId, progressModalOpen, startCall,
                      closeCall, createdJob>>
       /\ PageRender
    \/ /\ PreviewReject
       /\ UNCHANGED <<backendVars, runnerVars, collectVars, streamVars,
                      isStartingAutoCollect, startRequest, currentJobId,
                      progressModalOpen, startCall, closeCall, createdJob>>
       /\ PageRender
    \/ /\ \E url \in SeqUrls(combinedArticles), checked \in BOOLEAN :
              ArticleToggle(url, checked)
       /\ PageInput(<<backendVars, runnerVars, collectVars, streamVars,
                      isStartingAutoCollect, startRequest, currentJobId,
                      progressModalOpen, startCall, closeCall, createdJob>>, TRUE)
    \/ /\ \E checked \in BOOLEAN : SelectAll(checked)
       /\ PageInput(<<backendVars, runnerVars, collectVars, streamVars,
                      isStartingAutoCollect, startRequest, currentJobId,
                      progressModalOpen, startCall, closeCall, createdJob>>, TRUE)
    \/ /\ ClickStart
       /\ PageInput(<<backendVars, runnerVars, collectVars, streamVars, closeCall>>, FALSE)
    \/ /\ StartResolve
       /\ UNCHANGED <<backendVars, runnerVars, collectVars, streamVars>>
       /\ PageRender
    \/ /\ StartReject
       /\ UNCHANGED <<backendVars, runnerVars, collectVars, streamVars, closeCall>>
       /\ PageRender
    \/ RunEffects /\ UNCHANGED <<backendVars, runnerVars, collectVars, streamVars>>

SpecStart == InitSpecStart /\ [][NextStart]_vars

-----------------------------------------------------------------------------
(* Claims about the start of a collection *)

\* C21: every start request the page sends carries a non-empty list made only
\* of non-duplicate articles of the preview on display that are selected at
\* that moment; a call with nothing selected sends no request and sets the
\* error message.
C21_StartRequestCarriesSelection ==
    [][/\ (startRequest'.sent /\ startRequest' # startRequest) =>
              /\ startRequest'.urls # {}
              /\ ~previewResult.isNull
              /\ startRequest'.urls \subseteq NewUrls(previewResult.data)
              /\ startRequest'.urls \subseteq selectedUrls
       /\ (handleStartAutoCollect /\ selectedCount = 0) =>
              /\ startRequest' = startRequest
              /\ ~isStartingAutoCollect'
              /\ previewError' = "nothing-selected"]_vars

\* A start request is in flight for the one selected article of a preview
\* that also shows a duplicate and a new article that was deselected.
C21_Witness ==
    /\ startRequest.sent
    /\ startRequest.urls = {"f2"}
    /\ startCall = "request"
    /\ ~IsNew(previewResult.data["fcc"][1])
    /\ "o1" \in NewUrls(previewResult.data)
    /\ "o1" \notin selectedUrls

\* C29: a preview call that fails the validation of the months changes the
\* error message only: the preview on display, the selection and the loading
\* flag stay, and the start button stays as it was, so the start request of
\* the earlier preview can still be sent.
C29_InvalidRangeKeepsPreview ==
    [][(handleAutoCollectPreview /\ ~NoSources(selectedSources)
            /\ InvertedRange(startMonth, endMonth)) =>
           /\ previewError' = "invalid-range"
           /\ previewResult' = previewResult
           /\ combinedArticles' = combinedArticles
           /\ selectedUrls' = selectedUrls
           /\ isPreviewLoading' = isPreviewLoading
           /\ StartButtonEnabled => StartButtonEnabled']_vars

\* After a preview call that failed the validation, the start request of the
\* earlier preview was sent.
C29_Witness ==
    /\ previewCall = "invalid-range"
    /\ startMonth > endMonth
    /\ startRequest.sent
    /\ startRequest.urls = {"f1", "f2", "o1"}
    /\ previewError = NoError
    /\ ~previewResult.isNull

-----------------------------------------------------------------------------
(* Claims about the modal and the job it shows *)

\* The modal shows the latest job and every effect of its render has run.
ModalSettled ==
    /\ progressModalOpen
    /\ currentJobId = createdJob.id
    /\ ~initDue
    /\ ~sseDue

\* C25 as stated: the URLs the modal tracks for a job are the URLs submitted
\* in that job's start request, whatever toggles, previews and responses came
\* between the click on the start button and the opening of the modal.
C25_TrackedEqualsSubmitted ==
    ModalSettled => DOMAIN articleStates = createdJob.urls

\* The events the hook holds that came from the stream of the job on display.
EventsOfShownJob == IF streamJob = currentJobId THEN events ELSE <<>>

\* The latest event received for the job on display ended the job.
ShownJobEnded ==
    /\ EventsOfShownJob # <<>>
    /\ EventsOfShownJob[Len(EventsOfShownJob)].status \in {"completed", "failed"}

\* C23 as stated: while the modal is open for a job whose latest received
\* event is not completed or failed (no event yet included), the modal stays
\* open whatever is requested.
C23_OpenUntilJobEnded ==
    [][(progressModalOpen /\ currentJobId # NoJob /\ ~ShownJobEnded)
           => progressModalOpen']_vars

\* The same for the events the hook holds, whichever stream they came from.
C23_OpenWhileProcessing ==
    [][(progressModalOpen /\ isProcessing) => progressModalOpen']_vars

\* The connection of the job on display was closed by an error before any
\* terminal event was received.
SseErrored ==
    /\ currentJobId # NoJob
    /\ streamJob = currentJobId
    /\ ~sseDue
    /\ ~esOpen
    /\ \A i \in 1..Len(events) : events[i].status \notin {"completed", "failed"}

\* C26 as stated: once the connection of the job on display has errored
\* before a terminal event, the hook never opens another one, no event is
\* appended any more, so the latest event never becomes completed or failed,
\* and the open modal stays open whatever is requested.
C26_ErroredStreamBlocksModal ==
    [][(progressModalOpen /\ SseErrored) =>
           /\ SseErrored'
           /\ events' = events
           /\ connections' = connections
           /\ progressModalOpen']_vars

\* The stream errored after one event, the job still has events to send, and
\* a request to close the modal has been ignored.
C26_Witness ==
    /\ progressModalOpen
    /\ SseErrored
    /\ Len(events) = 1
    /\ SessionEvents # {}
    /\ closeCall = "ignored"
    /\ ~foldDue

\* C24: the hook's effect runs for a change of the endpoint only: renders
\* with new callbacks and the same endpoint construct no EventSource and do
\* not empty the events; each non-null endpoint gets exactly one connection.
C24_OneConnectionPerEndpoint ==
    [][/\ connections' <= 1
       /\ (~sseDue' /\ currentJobId' # NoJob) =>
              (streamJob' = currentJobId' /\ connections' = 1)
       /\ (connections' # connections \/ (events' = <<>> /\ events # <<>>)) =>
              (streamJob' # streamJob /\ streamJob' = currentJobId)
       /\ currentJobId' = currentJobId => sseDue' = sseDue \/ ~sseDue']_vars

\* The hook has received events over the one connection of the second job,
\* through several renders of the modal.
C24_Witness ==
    /\ connections = 1
    /\ streamJob = 2
    /\ currentJobId = 2
    /\ esOpen
    /\ Len(events) = 2
    /\ ~sseDue
    /\ ~foldDue

\* C27 as stated: the modal opened for a new job shows its selected articles
\* all pending with the index at -1 before the first event, and an earlier
\* job's events decide neither its article states nor whether it is shown as
\* completed or failed.
C27_NewJobStartsClean ==
    /\ (ModalSettled /\ events = <<>>) =>
           /\ lastProcessedIndex = -1
           /\ \A u \in DOMAIN articleStates :
                  articleStates[u].overallStatus = "pending"
    /\ (progressModalOpen /\ currentJobId # NoJob /\ (isCompleted \/ isFailed)) =>
           streamJob = currentJobId

====
